---- MODULE Spec2Model ----
(***************************************************************************)
(* kinesis: dependency-tracked fragment runtime.                           *)
(*                                                                         *)
(* The repository holds several generations of the runtime side by side.   *)
(* The variable gen selects the one a behaviour runs:                      *)
(*   "fragment"   src/kinesis/src/fragment/mod.rs with the parts of        *)
(*                fragment/dom_renderable (Updatable, Conditional, Each)   *)
(*                and fragment/util/location.rs;                           *)
(*   "legacy"     src/kinesis/src/component/fragment.rs, whose update      *)
(*                dispatches through the dependency index;                 *)
(*   "controller" src/kinesis/src/controller/{mod,ref}.rs with             *)
(*                dynamic/update_proxy.rs and the components of simple.rs. *)
(* Every action is one whole call made by the host: it runs to completion. *)
(***************************************************************************)
EXTENDS Integers, Sequences, FiniteSets, TLC

\* ------------------------------------------------------------------ bounds
\* Largest value of the count field of the context.
MaxCount == 2
\* Largest value of the second context field (dependency id 1).
MaxOther == 1
\* The width in bits of the usize counters of simple.rs.
UsizeBits == 2
\* The event ids a callback is asked for, 0..MaxEvent.
MaxEvent == 2

VARIABLES
    gen,      \* which generation of the runtime this behaviour runs
    ctx,      \* the component state handed to update as the context
    dom,      \* the host tree: [children, data]
    frag,     \* the root Fragment
    loc,      \* the Location the root Fragment is mounted at
    log,      \* the host calls and callbacks of the last operation, in order
    op,       \* the last operation and its arguments
    ok,       \* FALSE once an expect() has panicked
    hist,     \* history: what the claims need to remember of earlier calls
    ctl       \* the parent and child Controllers of simple.rs and their components

vars == <<gen, ctx, dom, frag, loc, log, op, ok, hist, ctl>>

\* ------------------------------------------------------------ Option<T>
None == <<>>
Some(x) == <<x>>
IsSome(o) == o # <<>>
Unwrap(o) == o[1]

\* --------------------------------------------------------------- helpers
\* let v = ..; K(v): the value is computed once and named in what follows.
Let(v, K(_)) == K(v)
Without(s, x) == SelectSeq(s, LAMBDA y : y # x)
Contains(s, x) == \E i \in 1..Len(s) : s[i] = x
IndexOf(s, x) == CHOOSE i \in 1..Len(s) : s[i] = x
InsertAt(s, i, x) == SubSeq(s, 1, i - 1) \o <<x>> \o SubSeq(s, i, Len(s))
Range(s) == {s[i] : i \in 1..Len(s)}

Digit == <<"0", "1", "2", "3", "4", "5", "6", "7", "8", "9">>
RECURSIVE to_string(_)
\* usize::to_string: the decimal digits, most significant first.
to_string(n) == IF n < 10 THEN Digit[n + 1] ELSE to_string(n \div 10) \o Digit[(n % 10) + 1]

\* ------------------------------------------------------------- host tree
\* A world w threads the host tree, the log and the panic flag through one call.
\*   w.children : node -> its child list       w.data : node -> text content
\* The document body is node 0; node 1 is a child of the body that is there
\* before anything is mounted.
Body == 0
Sibling == Body + 1

\*   w.rev : whether the HashMap of this call iterates its keys downwards
World(d, rev) == [children |-> d.children, data |-> d.data, log |-> <<>>, ok |-> TRUE, rev |-> rev]
Emit(w, e) == IF w.ok THEN [w EXCEPT !.log = Append(@, e)] ELSE w
Panic(w, why) == IF w.ok THEN [w EXCEPT !.ok = FALSE, !.log = Append(@, [ev |-> "panic", why |-> why])] ELSE w

\* Node::parent_node(): the node whose child list holds n, if any.
ParentNode(w, n) ==
    Let({p \in DOMAIN w.children : Contains(w.children[p], n)}, LAMBDA ps :
        IF ps = {} THEN None ELSE Some(CHOOSE p \in ps : TRUE))

RECURSIVE IsAncestorOrSelf(_, _, _)
IsAncestorOrSelf(w, a, n) ==
    IF a = n THEN TRUE
    ELSE Let(ParentNode(w, n), LAMBDA p :
             IF IsSome(p) THEN IsAncestorOrSelf(w, a, Unwrap(p)) ELSE FALSE)

\* The smallest node id not in use.
FreshNode(w) == CHOOSE n \in 0..Cardinality(DOMAIN w.children) :
                    /\ n \notin DOMAIN w.children
                    /\ \A m \in 0..(n - 1) : m \in DOMAIN w.children

\* Document::create_text_node / create_element: a new node outside the tree.
CreateNode(w, content) ==
    Let(FreshNode(w), LAMBDA n :
        [w |-> [w EXCEPT !.children = @ @@ (n :> <<>>), !.data = @ @@ (n :> content)],
         node |-> n])

\* Node::insert_before(node, anchor): Err when the anchor is no child of the
\* parent or the node would contain its parent; a node that already has a parent
\* is moved.
InsertBefore(w, parent, node, anchor) ==
    IF ~w.ok THEN w
    ELSE IF IsSome(anchor) /\ ParentNode(w, Unwrap(anchor)) # Some(parent)
        THEN Panic(w, "node mounted into parent")
    ELSE IF IsAncestorOrSelf(w, node, parent)
        THEN Panic(w, "node mounted into parent")
    ELSE IF anchor = Some(node) THEN Emit(w, [ev |-> "insert_before", parent |-> parent, node |-> node])
    ELSE Emit([w EXCEPT !.children =
                   [[p \in DOMAIN w.children |-> Without(w.children[p], node)] EXCEPT ![parent] =
                       InsertAt(@, IF IsSome(anchor) THEN IndexOf(@, Unwrap(anchor)) ELSE Len(@) + 1, node)]],
              [ev |-> "insert_before", parent |-> parent, node |-> node])

\* node.parent_node().expect(..).remove_child(node)
RemoveFromParent(w, node, why) ==
    IF ~w.ok THEN w
    ELSE Let(ParentNode(w, node), LAMBDA p :
             IF ~IsSome(p) THEN Panic(w, why)
             ELSE Emit([w EXCEPT !.children[Unwrap(p)] = Without(@, node)],
                       [ev |-> "remove_child", parent |-> Unwrap(p), node |-> node]))

\* Text::set_data
SetData(w, node, content) ==
    IF ~w.ok THEN w
    ELSE Emit([w EXCEPT !.data[node] = content], [ev |-> "set_data", node |-> node, data |-> content])

\* ------------------------------------------------- fragment/util/location.rs
LocationParent(parent) == [parent |-> parent, anchor |-> None]
LocationAnchoredParent(parent, anchor) == [parent |-> parent, anchor |-> anchor]

\* A location at the end of the anchor's parent, after the anchor.
LocationAnchorAppended(w, anchor) ==
    Let(ParentNode(w, anchor), LAMBDA p :
        [w |-> w, loc |-> [parent |-> IF IsSome(p) THEN Unwrap(p) ELSE anchor, anchor |-> None]])

\* Location::anchor: the parent is the anchor's current parent (expect).
LocationAnchor(w, anchor) ==
    Let(ParentNode(w, anchor), LAMBDA p :
        IF IsSome(p)
        THEN [w |-> w, loc |-> [parent |-> Unwrap(p), anchor |-> Some(anchor)]]
        ELSE [w |-> Panic(w, "anchor to have parent"), loc |-> [parent |-> anchor, anchor |-> None]])

\* A mount that appends to the parent whatever the anchor.
LocationMountAppended(w, l, node) == InsertBefore(w, l.parent, node, None)

\* Location::mount
LocationMount(w, l, node) == InsertBefore(w, l.parent, node, l.anchor)

\* ------------------------------------------------------------ the closures
\* What a component hands to the builder (src/kinesis/src/lib.rs 42-62): the
\* closures read the context; each is named by what it computes.
GetText(fn, c) ==
    CASE fn = "count" -> to_string(c.count)
      [] fn = "other" -> to_string(c.other)

CheckCondition(fn, c) ==
    CASE fn = "even" -> c.count % 2 = 0
      [] fn = "other" -> c.other # 0

NodeBuilder(content, location) == [content |-> content, location |-> location]
PartBuilder(kind, dependencies, location, fn, builder) ==
    [kind |-> kind, dependencies |-> dependencies, location |-> location, fn |-> fn, builder |-> builder]
FragmentBuilder(nodes, parts) == [nodes |-> nodes, parts |-> parts]
EmptyBuilder == FragmentBuilder(<<>>, <<>>)

\* One row of the each block: <p>counting {val}</p>
RowBuilder(val) ==
    FragmentBuilder(<<NodeBuilder("p", None), NodeBuilder("counting " \o to_string(val), Some(0))>>, <<>>)

\* A row holding a text binding of its own, on dependency 1.
BoundRowBuilder(val) ==
    FragmentBuilder(<<NodeBuilder("p", None)>>,
                    <<PartBuilder("Updatable", <<1>>, Some(0), "other", EmptyBuilder)>>)

\* <p>showing!</p>
ShowingBuilder ==
    FragmentBuilder(<<NodeBuilder("p", None), NodeBuilder("showing!", Some(0))>>, <<>>)

\* Fragment::build().with_text(content, None)
TextBuilder(content) == FragmentBuilder(<<NodeBuilder(content, None)>>, <<>>)

\* "once_" and "then_" name the closures builder.rs wraps around a get_fragment
\* and around a check_condition with its build_fragment.
GetItems(fn, c) ==
    CASE fn = "range" -> [i \in 1..c.count |-> RowBuilder(i - 1)]
      [] fn = "bound" -> [i \in 1..c.count |-> BoundRowBuilder(i - 1)]
      [] fn = "once_count" -> <<TextBuilder(GetText("count", c))>>
      [] fn = "then_even" -> IF CheckCondition("even", c) THEN <<ShowingBuilder>> ELSE <<>>

\* The fragment of lib.rs 42-62.
DemoBuilder ==
    FragmentBuilder(
        <<NodeBuilder("p", None), NodeBuilder("some content: ", Some(0)),
          NodeBuilder("button", None), NodeBuilder("click me", Some(2))>>,
        <<PartBuilder("Updatable", <<0>>, Some(0), "count", EmptyBuilder),
          PartBuilder("Conditional", <<0>>, None, "even", ShowingBuilder),
          PartBuilder("Each", <<0>>, None, "range", EmptyBuilder)>>)

\* Two text bindings on different dependencies, the second on both.
TwoTextBuilder ==
    FragmentBuilder(
        <<>>,
        <<PartBuilder("Updatable", <<0>>, None, "count", EmptyBuilder),
          PartBuilder("Updatable", <<1, 0>>, None, "other", EmptyBuilder)>>)

\* A conditional on dependency 1 around a text binding on dependency 0, and an
\* each block on dependency 0 whose rows hold a binding on dependency 1.
NestedBuilder ==
    FragmentBuilder(
        <<NodeBuilder("div", None)>>,
        <<PartBuilder("Conditional", <<1>>, Some(0), "other",
              FragmentBuilder(<<>>, <<PartBuilder("Updatable", <<0>>, None, "count", EmptyBuilder)>>)),
          PartBuilder("Each", <<0>>, None, "bound", EmptyBuilder)>>)

Builders == {DemoBuilder, TwoTextBuilder, NestedBuilder}

\* Builders a component author can write with a parent index that names no
\* static node of the builder (the builder holds fewer), on a static node and on
\* a part, and one whose static node names itself as its parent.
DanglingNodeBuilder ==
    FragmentBuilder(<<NodeBuilder("p", None), NodeBuilder("some content: ", Some(2))>>, <<>>)
DanglingPartBuilder ==
    FragmentBuilder(<<NodeBuilder("p", None)>>,
                    <<PartBuilder("Updatable", <<0>>, Some(1), "count", EmptyBuilder)>>)
SelfParentBuilder == FragmentBuilder(<<NodeBuilder("p", Some(0))>>, <<>>)
FaultyBuilders == {DanglingNodeBuilder, DanglingPartBuilder, SelfParentBuilder}

\* ------------------------------------------------------ fragment/builder.rs
\* FragmentBuilder::with_node
with_node(b, content, location) == [b EXCEPT !.nodes = Append(@, NodeBuilder(content, location))]
\* FragmentBuilder::with_iter: an Iterator, which is updated as an Each is.
with_iter(b, dependencies, location, get_items) ==
    [b EXCEPT !.parts = Append(@, PartBuilder("Each", dependencies, location, get_items, EmptyBuilder))]
\* FragmentBuilder::with_updatable: an Iterator over iter::once(get_fragment()).
with_updatable(b, dependencies, location, get_fragment) ==
    with_iter(b, dependencies, location, "once_" \o get_fragment)
\* FragmentBuilder::with_conditional: an Iterator over
\* check_condition().then(&build_fragment).into_iter().
with_conditional(b, dependencies, location, check_condition) ==
    with_iter(b, dependencies, location, "then_" \o check_condition)

\* The fragment of Simple::new (simple.rs 60-100), without its nested component.
SimpleBuilder ==
    with_iter(
     with_conditional(
      with_node(with_node(with_node(with_node(
       with_updatable(
        with_node(with_node(EmptyBuilder, "p", None), "some content: ", Some(0)),
        <<0>>, Some(0), "count"),
       "button", None), "decrement", Some(2)), "button", None), "increment", Some(4)),
      <<0>>, None, "even"),
     <<0>>, None, "range")

\* A conditional alone.
OnlyConditionalBuilder == with_conditional(EmptyBuilder, <<0>>, None, "even")

DynamicBuilders == {SimpleBuilder, OnlyConditionalBuilder}

\* ------------------------------------------------- util/hash_map_list.rs
\* HashMapList<K, V>: a map from keys to the list of the values inserted.
HashMapListNew == <<>>
HashMapListInsert(m, k, v) ==
    IF k \in DOMAIN m THEN [m EXCEPT ![k] = Append(@, v)] ELSE m @@ (k :> <<v>>)
HashMapListGet(m, k) == IF k \in DOMAIN m THEN Some(m[k]) ELSE None

\* ------------------------------------------------------- fragment/mod.rs
\* A Fragment f: static_nodes and renderables are lists of [location, node] and
\* [location, part]; dependencies is the HashMapList from a dependency id to
\* the ids of the parts registered against it. Every operation takes a world
\* and returns the world and the fragment (or part) after the call.

RECURSIVE Build(_, _), BuildNodes(_, _, _, _), BuildParts(_, _, _, _), BuildPart(_, _)
RECURSIVE FragMount(_, _, _), MountStatics(_, _, _, _), MountParts(_, _, _, _)
RECURSIVE FragDetach(_, _, _), DetachStatics(_, _, _), DetachParts(_, _, _, _), PartDetach(_, _, _)
RECURSIVE DetachFragments(_, _, _, _)
RECURSIVE FragUpdate(_, _, _, _), UpdateParts(_, _, _, _, _), PartUpdate(_, _, _, _)
RECURSIVE EachBuildItems(_, _, _, _, _, _), EachBuildItemsMountOnly(_, _, _, _, _, _)

\* Fragment::new
FragmentNew == [static_nodes |-> <<>>, renderables |-> <<>>,
                dependencies |-> HashMapListNew, mounted |-> FALSE]

RECURSIVE register_dependencies(_, _, _, _)
\* Fragment::register_dependencies: one insert per listed dependency.
register_dependencies(m, id, dependencies, i) ==
    IF i > Len(dependencies) THEN m
    ELSE register_dependencies(HashMapListInsert(m, dependencies[i], id), id, dependencies, i + 1)

\* Fragment::with_static_node, for every node of the builder.
BuildNodes(w, f, b, i) ==
    IF i > Len(b.nodes) THEN [w |-> w, f |-> f]
    ELSE Let(CreateNode(w, b.nodes[i].content), LAMBDA c :
             BuildNodes(c.w, [f EXCEPT !.static_nodes =
                                  Append(@, [location |-> b.nodes[i].location, node |-> c.node])],
                        b, i + 1))

\* Updatable::new, Conditional::new, Each::new.
BuildPart(w, pb) ==
    CASE pb.kind = "Updatable" ->
            Let(CreateNode(w, ""), LAMBDA c :
                [w |-> c.w, p |-> [kind |-> "Updatable", get_text |-> pb.fn, text_node |-> c.node]])
      [] pb.kind = "Conditional" ->
            Let(Build(w, pb.builder), LAMBDA nested :
            Let(CreateNode(nested.w, ""), LAMBDA c :
                [w |-> c.w, p |-> [kind |-> "Conditional", check_condition |-> pb.fn,
                                   fragment |-> nested.f, anchor |-> c.node,
                                   fragment_mounted |-> FALSE]]))
      [] pb.kind = "Each" ->
            Let(CreateNode(w, ""), LAMBDA c :
                [w |-> c.w, p |-> [kind |-> "Each", get_items |-> pb.fn,
                                   mounted_fragments |-> None, anchor |-> c.node]])

\* Fragment::with_renderable, for every dynamic part of the builder.
BuildParts(w, f, b, i) ==
    IF i > Len(b.parts) THEN [w |-> w, f |-> f]
    ELSE Let(BuildPart(w, b.parts[i]), LAMBDA r :
         Let(Len(f.renderables), LAMBDA id :
             BuildParts(r.w,
                        [f EXCEPT !.renderables = Append(@, [location |-> b.parts[i].location, part |-> r.p]),
                                  !.dependencies = register_dependencies(@, id, b.parts[i].dependencies, 1)],
                        b, i + 1)))

\* FragmentBuilder::build
Build(w, b) ==
    Let(BuildNodes(w, FragmentNew, b, 1), LAMBDA n : BuildParts(n.w, n.f, b, 1))

\* A lookup that falls back to the location given to mount.
ResolveLocationOrRoot(w, f, parent_id, location) ==
    IF IsSome(parent_id) /\ Unwrap(parent_id) + 1 \in 1..Len(f.static_nodes)
    THEN [w |-> w, loc |-> LocationParent(f.static_nodes[Unwrap(parent_id) + 1].node)]
    ELSE [w |-> w, loc |-> location]

\* The location of an entry of the fragment: the static node its parent id
\* names (expect "location to exist"), or the location given to mount.
ResolveLocation(w, f, parent_id, location) ==
    IF ~IsSome(parent_id) THEN [w |-> w, loc |-> location]
    ELSE IF Unwrap(parent_id) + 1 \in 1..Len(f.static_nodes)
        THEN [w |-> w, loc |-> LocationParent(f.static_nodes[Unwrap(parent_id) + 1].node)]
        ELSE [w |-> Panic(w, "location to exist"), loc |-> location]

\* Updatable::mount, Conditional::mount, Each::mount: the text node or the anchor.
PartNode(p) == IF p.kind = "Updatable" THEN p.text_node ELSE p.anchor
PartMount(w, p, l) == LocationMount(w, l, PartNode(p))

MountStatics(w, f, location, i) ==
    IF i > Len(f.static_nodes) THEN w
    ELSE Let(ResolveLocation(w, f, f.static_nodes[i].location, location), LAMBDA r :
             MountStatics(LocationMount(r.w, r.loc, f.static_nodes[i].node), f, location, i + 1))

MountParts(w, f, location, i) ==
    IF i > Len(f.renderables) THEN w
    ELSE Let(ResolveLocation(w, f, f.renderables[i].location, location), LAMBDA r :
             MountParts(PartMount(r.w, f.renderables[i].part, r.loc), f, location, i + 1))

\* Which Fragment instance a call is made on: the nodes the instance created
\* for itself in build (its static nodes, the text nodes and anchors of its parts).
FragmentId(f) ==
    {f.static_nodes[i].node : i \in 1..Len(f.static_nodes)}
        \cup {PartNode(f.renderables[i].part) : i \in 1..Len(f.renderables)}

\* A mount that mounts the parts before the static nodes.
FragMountPartsFirst(w, f, location) ==
    Let(MountStatics(MountParts(Emit(w, [ev |-> "fragment_mount", id |-> FragmentId(f)]),
                                f, location, 1), f, location, 1), LAMBDA w2 :
        [w |-> w2, f |-> IF w2.ok THEN [f EXCEPT !.mounted = TRUE] ELSE f])

\* Fragment::mount
FragMount(w, f, location) ==
    Let(MountParts(MountStatics(Emit(w, [ev |-> "fragment_mount", id |-> FragmentId(f)]),
                                f, location, 1), f, location, 1), LAMBDA w2 :
        [w |-> w2, f |-> IF w2.ok THEN [f EXCEPT !.mounted = TRUE] ELSE f])

\* A detach that leaves the static nodes where they are.
DetachStaticsSkipped(w, f, i) == w

\* Fragment::detach, the static nodes: each is removed from its parent.
DetachStatics(w, f, i) ==
    IF i > Len(f.static_nodes) THEN w
    ELSE DetachStatics(RemoveFromParent(w, f.static_nodes[i].node, "node to have parent"), f, i + 1)

\* A list that is dropped without a detach of its fragments.
DetachFragmentsSkipped(w, fs, top_level, i) == w

\* A list that is dropped with a detach of its first fragment only.
DetachFragmentsFirst(w, fs, top_level, i) ==
    IF Len(fs) = 0 THEN w ELSE FragDetach(w, fs[1], top_level).w

\* Each::detach_fragments: the list is taken and every fragment of it detached.
DetachFragments(w, fs, top_level, i) ==
    IF i > Len(fs) THEN w
    ELSE DetachFragments(FragDetach(w, fs[i], top_level).w, fs, top_level, i + 1)

\* A detach whose Each detaches the fragments it holds and keeps the list.
PartDetachKeepingList(w, p, top_level) ==
    CASE ~w.ok -> [w |-> w, p |-> p]
      [] p.kind = "Updatable" ->
            [w |-> IF top_level THEN RemoveFromParent(w, p.text_node, "node to have parent") ELSE w,
             p |-> p]
      [] p.kind = "Conditional" ->
            Let(RemoveFromParent(w, p.anchor, "node to have parent"), LAMBDA w1 :
                IF p.fragment_mounted /\ w1.ok
                THEN Let(FragDetach(w1, p.fragment, top_level), LAMBDA d :
                         [w |-> d.w,
                          p |-> IF d.w.ok THEN [p EXCEPT !.fragment = d.f, !.fragment_mounted = FALSE]
                                ELSE [p EXCEPT !.fragment = d.f]])
                ELSE [w |-> w1, p |-> p])
      [] p.kind = "Each" ->
            [w |-> RemoveFromParent(IF IsSome(p.mounted_fragments)
                                    THEN DetachFragments(w, Unwrap(p.mounted_fragments), top_level, 1)
                                    ELSE w,
                                    p.anchor, "node to have parent"),
             p |-> p]

\* Updatable::detach, Conditional::detach, Each::detach
PartDetach(w, p, top_level) ==
    CASE ~w.ok -> [w |-> w, p |-> p]
      [] p.kind = "Updatable" ->
            [w |-> IF top_level THEN RemoveFromParent(w, p.text_node, "node to have parent") ELSE w,
             p |-> p]
      [] p.kind = "Conditional" ->
            Let(RemoveFromParent(w, p.anchor, "node to have parent"), LAMBDA w1 :
                IF p.fragment_mounted /\ w1.ok
                THEN Let(FragDetach(w1, p.fragment, top_level), LAMBDA d :
                         [w |-> d.w,
                          p |-> IF d.w.ok THEN [p EXCEPT !.fragment = d.f, !.fragment_mounted = FALSE]
                                ELSE [p EXCEPT !.fragment = d.f]])
                ELSE [w |-> w1, p |-> p])
      [] p.kind = "Each" ->
            [w |-> RemoveFromParent(IF IsSome(p.mounted_fragments)
                                    THEN DetachFragments(w, Unwrap(p.mounted_fragments), top_level, 1)
                                    ELSE w,
                                    p.anchor, "node to have parent"),
             p |-> [p EXCEPT !.mounted_fragments = None]]

DetachParts(w, f, top_level, i) ==
    IF i > Len(f.renderables) THEN [w |-> w, f |-> f]
    ELSE Let(PartDetach(w, f.renderables[i].part, top_level), LAMBDA r :
             DetachParts(r.w, [f EXCEPT !.renderables[i].part = r.p], top_level, i + 1))

\* A detach that leaves the mounted flag as it is.
FragDetachStillMounted(w, f, top_level) ==
    Let(DetachParts(DetachStatics(Emit(w, [ev |-> "fragment_detach", id |-> FragmentId(f),
                                           top_level |-> top_level]), f, 1),
                    f, top_level, 1), LAMBDA r :
        [w |-> r.w, f |-> r.f])

\* Fragment::detach
FragDetach(w, f, top_level) ==
    Let(DetachParts(DetachStatics(Emit(w, [ev |-> "fragment_detach", id |-> FragmentId(f),
                                           top_level |-> top_level]), f, 1),
                    f, top_level, 1), LAMBDA r :
        [w |-> r.w, f |-> IF r.w.ok THEN [r.f EXCEPT !.mounted = FALSE] ELSE r.f])

RECURSIVE SortedSeq(_, _)
\* The elements of a set of numbers as a list, upwards or downwards.
SortedSeq(S, rev) ==
    IF S = {} THEN <<>>
    ELSE Let(CHOOSE y \in S : \A z \in S : IF rev THEN z <= y ELSE y <= z, LAMBDA x :
             <<x>> \o SortedSeq(S \ {x}, rev))

\* HashMap::keys(): every key once, in the order of the map's hasher.
HashMapListKeys(m, rev) == SortedSeq(DOMAIN m, rev)

\* A full_update that does nothing.
FullUpdateSkipped(w, f, c) == [w |-> w, f |-> f]

\* Fragment::full_update: update with the keys of the dependency index.
FragFullUpdate(w, f, c) == FragUpdate(w, f, c, HashMapListKeys(f.dependencies, w.rev))

\* Rows that are built and mounted, and not updated.
EachBuildItemsMountOnly(w, acc, items, anchor, c, changed) ==
    IF Len(acc) = Len(items) \/ ~w.ok THEN [w |-> w, fs |-> acc]
    ELSE Let(Build(w, items[Len(acc) + 1]), LAMBDA b :
         Let(LocationAnchor(b.w, anchor), LAMBDA l :
         Let(FragMount(l.w, b.f, l.loc), LAMBDA m :
             EachBuildItemsMountOnly(m.w, Append(acc, m.f), items, anchor, c, changed))))

\* Each::update, per builder returned by get_items: build, mount before the
\* anchor, update, keep.
EachBuildItems(w, acc, items, anchor, c, changed) ==
    IF Len(acc) = Len(items) \/ ~w.ok THEN [w |-> w, fs |-> acc]
    ELSE Let(Build(w, items[Len(acc) + 1]), LAMBDA b :
         Let(LocationAnchor(b.w, anchor), LAMBDA l :
         Let(FragMount(l.w, b.f, l.loc), LAMBDA m :
         Let(FragUpdate(m.w, m.f, c, changed), LAMBDA u :
             EachBuildItems(u.w, Append(acc, u.f), items, anchor, c, changed)))))

\* Updatable::update, Conditional::update, Each::update
PartUpdate(w, p, c, changed) ==
    Let(Emit(w, [ev |-> "update", part |-> PartNode(p)]), LAMBDA w0 :
    CASE ~w.ok -> [w |-> w, p |-> p]
      [] p.kind = "Updatable" ->
            [w |-> SetData(Emit(w0, [ev |-> "call", fn |-> "get_text", part |-> p.text_node]),
                           p.text_node, GetText(p.get_text, c)),
             p |-> p]
      [] p.kind = "Conditional" ->
            Let(Emit(w0, [ev |-> "call", fn |-> "check_condition", part |-> p.anchor]), LAMBDA w1 :
            Let(CheckCondition(p.check_condition, c), LAMBDA should_mount :
                IF ~p.fragment_mounted /\ should_mount
                THEN Let(LocationAnchor(w1, p.anchor), LAMBDA l :
                     Let(FragMount(l.w, p.fragment, l.loc), LAMBDA m :
                     Let(FragFullUpdate(m.w, m.f, c), LAMBDA u :
                         [w |-> u.w,
                          p |-> IF u.w.ok THEN [p EXCEPT !.fragment = u.f, !.fragment_mounted = TRUE]
                                ELSE [p EXCEPT !.fragment = u.f]])))
                ELSE IF p.fragment_mounted /\ ~should_mount
                THEN Let(FragDetach(w1, p.fragment, TRUE), LAMBDA d :
                         [w |-> d.w,
                          p |-> IF d.w.ok THEN [p EXCEPT !.fragment = d.f, !.fragment_mounted = FALSE]
                                ELSE [p EXCEPT !.fragment = d.f]])
                ELSE IF p.fragment_mounted
                THEN Let(FragUpdate(w1, p.fragment, c, changed), LAMBDA u :
                         [w |-> u.w, p |-> [p EXCEPT !.fragment = u.f]])
                ELSE [w |-> w1, p |-> p]))
      [] p.kind = "Each" ->
            Let(Emit(IF IsSome(p.mounted_fragments)
                     THEN DetachFragments(w0, Unwrap(p.mounted_fragments), TRUE, 1)
                     ELSE w0,
                     [ev |-> "call", fn |-> "get_items", part |-> p.anchor]), LAMBDA w2 :
            Let(EachBuildItems(w2, <<>>, GetItems(p.get_items, c), p.anchor, c, changed), LAMBDA r :
                [w |-> r.w,
                 p |-> [p EXCEPT !.mounted_fragments = IF r.w.ok THEN Some(r.fs) ELSE None]])))

UpdateParts(w, f, c, changed, i) ==
    IF i > Len(f.renderables) THEN [w |-> w, f |-> f]
    ELSE Let(PartUpdate(w, f.renderables[i].part, c, changed), LAMBDA r :
             UpdateParts(r.w, [f EXCEPT !.renderables[i].part = r.p], c, changed, i + 1))

\* An update that does not ask whether the fragment is mounted.
FragUpdateUnguarded(w, f, c, changed) == UpdateParts(w, f, c, changed, 1)

\* An update that reaches the first part only.
FragUpdateFirst(w, f, c, changed) ==
    IF f.mounted /\ Len(f.renderables) > 0
    THEN Let(PartUpdate(w, f.renderables[1].part, c, changed), LAMBDA r :
             [w |-> r.w, f |-> [f EXCEPT !.renderables[1].part = r.p]])
    ELSE [w |-> w, f |-> f]

\* <Fragment as Dynamic>::update
FragUpdate(w, f, c, changed) ==
    IF f.mounted THEN UpdateParts(w, f, c, changed, 1) ELSE [w |-> w, f |-> f]

\* -------------------------------------------------- component/fragment.rs
\* The earlier Fragment<Ctx>: pieces, updatables, conditionals and each blocks
\* are kept in four lists, the dependency index maps a dependency id to
\* DependencyType entries [type, id], and mount takes the context.

RECURSIVE LegacyBuild(_, _), LegacyConditionals(_, _, _, _), LegacyMount(_, _, _, _, _)
RECURSIVE LegacyDetach(_, _), LegacyMountFragments(_, _, _, _, _, _), LegacyDetachFragments(_, _, _)
RECURSIVE LegacyMountConditionals(_, _, _, _), LegacyDetachConditionals(_, _, _)

\* The entries of a builder's part list of one kind, in the order given.
OfKind(parts, kind) == SelectSeq(parts, LAMBDA pb : pb.kind = kind)

\* Fragment::new
LegacyNew == [mounted |-> FALSE, pieces |-> <<>>, updatables |-> <<>>, conditionals |-> <<>>,
              each_blocks |-> <<>>, dependencies |-> HashMapListNew]

RECURSIVE LegacyPieces(_, _, _, _)
\* Fragment::with_piece, for every piece of the builder.
LegacyPieces(w, f, nodes, i) ==
    IF i > Len(nodes) THEN [w |-> w, f |-> f]
    ELSE Let(CreateNode(w, nodes[i].content), LAMBDA c :
             LegacyPieces(c.w, [f EXCEPT !.pieces = Append(@, [location |-> nodes[i].location,
                                                               node |-> c.node])], nodes, i + 1))

RECURSIVE LegacyUpdatables(_, _, _, _)
\* Fragment::with_updatable
LegacyUpdatables(w, f, pbs, i) ==
    IF i > Len(pbs) THEN [w |-> w, f |-> f]
    ELSE Let(CreateNode(w, ""), LAMBDA c :
         Let(Len(f.updatables), LAMBDA updatable_id :
             LegacyUpdatables(c.w,
                 [f EXCEPT !.updatables = Append(@, [get_text |-> pbs[i].fn, location |-> pbs[i].location,
                                                     text_node |-> c.node]),
                           !.dependencies = register_dependencies(@, [type |-> "Updatable", id |-> updatable_id],
                                                                  pbs[i].dependencies, 1)],
                 pbs, i + 1)))

\* Fragment::with_conditional; the nested builder is built by the caller first.
LegacyConditionals(w, f, pbs, i) ==
    IF i > Len(pbs) THEN [w |-> w, f |-> f]
    ELSE Let(LegacyBuild(w, pbs[i].builder), LAMBDA nested :
         Let(CreateNode(nested.w, ""), LAMBDA c :
         Let(Len(f.conditionals), LAMBDA conditional_id :
             LegacyConditionals(c.w,
                 [f EXCEPT !.conditionals = Append(@, [check_condition |-> pbs[i].fn, fragment |-> nested.f,
                                                       location |-> pbs[i].location, anchor |-> c.node]),
                           !.dependencies = register_dependencies(@, [type |-> "Conditional", id |-> conditional_id],
                                                                  pbs[i].dependencies, 1)],
                 pbs, i + 1))))

RECURSIVE LegacyEachBlocks(_, _, _, _)
\* Fragment::with_each
LegacyEachBlocks(w, f, pbs, i) ==
    IF i > Len(pbs) THEN [w |-> w, f |-> f]
    ELSE Let(CreateNode(w, ""), LAMBDA c :
         Let(Len(f.each_blocks), LAMBDA each_block_id :
             LegacyEachBlocks(c.w,
                 [f EXCEPT !.each_blocks = Append(@, [location |-> pbs[i].location, get_items |-> pbs[i].fn,
                                                      mounted_fragments |-> None, anchor |-> c.node]),
                           !.dependencies = register_dependencies(@, [type |-> "EachBlock", id |-> each_block_id],
                                                                  pbs[i].dependencies, 1)],
                 pbs, i + 1)))

\* FragmentBuilder::build: pieces, updatables, conditionals, each blocks.
LegacyBuild(w, b) ==
    Let(LegacyPieces(w, LegacyNew, b.nodes, 1), LAMBDA p :
    Let(LegacyUpdatables(p.w, p.f, OfKind(b.parts, "Updatable"), 1), LAMBDA u :
    Let(LegacyConditionals(u.w, u.f, OfKind(b.parts, "Conditional"), 1), LAMBDA c :
        LegacyEachBlocks(c.w, c.f, OfKind(b.parts, "Each"), 1))))

\* Fragment::mount_node: None is the root location Insert {target, anchor};
\* a location names the piece to append to (expect "parent to be an existing node").
LegacyMountNode(w, f, node, location, target, target_anchor) ==
    IF ~IsSome(location) THEN InsertBefore(w, target, node, target_anchor)
    ELSE IF Unwrap(location) + 1 \in 1..Len(f.pieces)
        THEN InsertBefore(w, f.pieces[Unwrap(location) + 1].node, node, None)
        ELSE Panic(w, "parent to be an existing node")

\* The (node, location) pairs mount and detach walk: pieces, text nodes of the
\* updatables, anchors of the conditionals, anchors of the each blocks.
LegacyNodes(f) ==
    [i \in 1..Len(f.pieces) |-> [node |-> f.pieces[i].node, location |-> f.pieces[i].location]]
    \o [i \in 1..Len(f.updatables) |-> [node |-> f.updatables[i].text_node, location |-> f.updatables[i].location]]
    \o [i \in 1..Len(f.conditionals) |-> [node |-> f.conditionals[i].anchor, location |-> f.conditionals[i].location]]
    \o [i \in 1..Len(f.each_blocks) |-> [node |-> f.each_blocks[i].anchor, location |-> f.each_blocks[i].location]]

RECURSIVE LegacyMountNodes(_, _, _, _, _, _)
LegacyMountNodes(w, f, ns, i, target, target_anchor) ==
    IF i > Len(ns) THEN w
    ELSE LegacyMountNodes(LegacyMountNode(w, f, ns[i].node, ns[i].location, target, target_anchor),
                          f, ns, i + 1, target, target_anchor)

\* Updatable::update (Updatable::mount calls it)
LegacyUpdatableUpdate(w, u, c) ==
    SetData(Emit(Emit(w, [ev |-> "update", part |-> u.text_node]),
                 [ev |-> "call", fn |-> "get_text", part |-> u.text_node]),
            u.text_node, GetText(u.get_text, c))

RECURSIVE LegacyMountUpdatables(_, _, _, _)
LegacyMountUpdatables(w, f, c, i) ==
    IF i > Len(f.updatables) THEN w
    ELSE LegacyMountUpdatables(LegacyUpdatableUpdate(w, f.updatables[i], c), f, c, i + 1)

\* anchor.parent_node().expect("anchor to have parent")
LegacyAnchorParent(w, anchor) ==
    Let(ParentNode(w, anchor), LAMBDA p :
        IF IsSome(p) THEN [w |-> w, parent |-> Unwrap(p)]
        ELSE [w |-> Panic(w, "anchor to have parent"), parent |-> Body])

\* Conditional::mount: the nested fragment is mounted if the condition holds.
LegacyConditionalMount(w, cond, c, target) ==
    Let(Emit(w, [ev |-> "call", fn |-> "check_condition", part |-> cond.anchor]), LAMBDA w1 :
        IF w.ok /\ CheckCondition(cond.check_condition, c)
        THEN Let(LegacyMount(w1, cond.fragment, c, target, Some(cond.anchor)), LAMBDA m :
                 [w |-> m.w, p |-> [cond EXCEPT !.fragment = m.f]])
        ELSE [w |-> w1, p |-> cond])

LegacyMountConditionals(w, f, c, i) ==
    IF i > Len(f.conditionals) \/ ~w.ok THEN [w |-> w, f |-> f]
    ELSE Let(LegacyAnchorParent(w, f.conditionals[i].anchor), LAMBDA a :
         Let(LegacyConditionalMount(a.w, f.conditionals[i], c, a.parent), LAMBDA r :
             LegacyMountConditionals(r.w, [f EXCEPT !.conditionals[i] = r.p], c, i + 1)))

\* Each::detach: the list is taken and every fragment of it detached.
LegacyDetachFragments(w, fs, i) ==
    IF i > Len(fs) THEN w
    ELSE LegacyDetachFragments(LegacyDetach(w, fs[i]).w, fs, i + 1)

LegacyEachDetach(w, e) ==
    [w |-> IF IsSome(e.mounted_fragments) THEN LegacyDetachFragments(w, Unwrap(e.mounted_fragments), 1) ELSE w,
     p |-> [e EXCEPT !.mounted_fragments = None]]

\* Each::update, per builder returned by get_items: build and mount.
LegacyMountFragments(w, acc, items, c, target, anchor) ==
    IF Len(acc) = Len(items) \/ ~w.ok THEN [w |-> w, fs |-> acc]
    ELSE Let(LegacyBuild(w, items[Len(acc) + 1]), LAMBDA b :
         Let(LegacyMount(b.w, b.f, c, target, Some(anchor)), LAMBDA m :
             LegacyMountFragments(m.w, Append(acc, m.f), items, c, target, anchor)))

\* Each::update (Each::mount calls it)
LegacyEachUpdate(w, e, c, target) ==
    Let(Emit(LegacyEachDetach(Emit(w, [ev |-> "update", part |-> e.anchor]), e).w,
             [ev |-> "call", fn |-> "get_items", part |-> e.anchor]), LAMBDA w1 :
    Let(LegacyMountFragments(w1, <<>>, GetItems(e.get_items, c), c, target, e.anchor), LAMBDA r :
        [w |-> r.w, p |-> [e EXCEPT !.mounted_fragments = IF r.w.ok THEN Some(r.fs) ELSE None]]))

RECURSIVE LegacyMountEachBlocks(_, _, _, _)
LegacyMountEachBlocks(w, f, c, i) ==
    IF i > Len(f.each_blocks) \/ ~w.ok THEN [w |-> w, f |-> f]
    ELSE Let(LegacyAnchorParent(w, f.each_blocks[i].anchor), LAMBDA a :
         Let(IF a.w.ok THEN LegacyEachUpdate(a.w, f.each_blocks[i], c, a.parent)
             ELSE [w |-> a.w, p |-> f.each_blocks[i]], LAMBDA r :
             LegacyMountEachBlocks(r.w, [f EXCEPT !.each_blocks[i] = r.p], c, i + 1)))

\* Fragment::mount
LegacyMount(w, f, c, target, target_anchor) ==
    IF f.mounted \/ ~w.ok THEN [w |-> w, f |-> f]
    ELSE Let(LegacyMountUpdatables(LegacyMountNodes(w, f, LegacyNodes(f), 1, target, target_anchor),
                                   f, c, 1), LAMBDA w2 :
         Let(LegacyMountConditionals(w2, f, c, 1), LAMBDA r3 :
         Let(LegacyMountEachBlocks(r3.w, r3.f, c, 1), LAMBDA r4 :
             [w |-> r4.w, f |-> IF r4.w.ok THEN [r4.f EXCEPT !.mounted = TRUE] ELSE r4.f])))

RECURSIVE LegacyDetachNodes(_, _, _)
\* Only the top-level nodes (no location) are removed from their parent.
LegacyDetachNodes(w, ns, i) ==
    IF i > Len(ns) THEN w
    ELSE LegacyDetachNodes(IF IsSome(ns[i].location) THEN w
                           ELSE RemoveFromParent(w, ns[i].node, "node to have parent before removal"),
                           ns, i + 1)

\* Conditional::detach, for every conditional.
LegacyDetachConditionals(w, f, i) ==
    IF i > Len(f.conditionals) THEN [w |-> w, f |-> f]
    ELSE Let(LegacyDetach(w, f.conditionals[i].fragment), LAMBDA d :
             LegacyDetachConditionals(d.w, [f EXCEPT !.conditionals[i].fragment = d.f], i + 1))

RECURSIVE LegacyDetachEachBlocks(_, _, _)
LegacyDetachEachBlocks(w, f, i) ==
    IF i > Len(f.each_blocks) THEN [w |-> w, f |-> f]
    ELSE Let(LegacyEachDetach(w, f.each_blocks[i]), LAMBDA d :
             LegacyDetachEachBlocks(d.w, [f EXCEPT !.each_blocks[i] = d.p], i + 1))

\* Fragment::detach
LegacyDetach(w, f) ==
    IF ~f.mounted \/ ~w.ok THEN [w |-> w, f |-> f]
    ELSE Let(LegacyDetachConditionals(LegacyDetachNodes(w, LegacyNodes(f), 1), f, 1), LAMBDA r2 :
         Let(LegacyDetachEachBlocks(r2.w, r2.f, 1), LAMBDA r3 :
             [w |-> r3.w, f |-> IF r3.w.ok THEN [r3.f EXCEPT !.mounted = FALSE] ELSE r3.f]))

\* Conditional::update: the nested fragment follows the condition.
LegacyConditionalUpdate(w, cond, c, target) ==
    Let(Emit(Emit(w, [ev |-> "update", part |-> cond.anchor]),
             [ev |-> "call", fn |-> "check_condition", part |-> cond.anchor]), LAMBDA w1 :
    Let(CheckCondition(cond.check_condition, c), LAMBDA desired_state :
    Let(cond.fragment.mounted, LAMBDA actual_state :
        IF desired_state = actual_state THEN [w |-> w1, p |-> cond]
        ELSE Let(IF desired_state THEN LegacyMount(w1, cond.fragment, c, target, Some(cond.anchor))
                 ELSE LegacyDetach(w1, cond.fragment), LAMBDA r :
                 [w |-> r.w, p |-> [cond EXCEPT !.fragment = r.f]]))))

RECURSIVE LegacyDependencies(_, _, _)
\* changed.iter().flat_map(|d| self.dependencies.get(d)).flatten(): the entries
\* of every changed id in turn, an id the index does not hold giving none.
LegacyDependencies(m, changed, i) ==
    IF i > Len(changed) THEN <<>>
    ELSE Let(HashMapListGet(m, changed[i]), LAMBDA got :
             (IF IsSome(got) THEN Unwrap(got) ELSE <<>>) \o LegacyDependencies(m, changed, i + 1))

\* The Conditional arm of the loop of Fragment::update.
LegacyUpdateConditional(w, f, id, c) ==
    Let(LegacyAnchorParent(w, f.conditionals[id + 1].anchor), LAMBDA a :
    Let(IF a.w.ok THEN LegacyConditionalUpdate(a.w, f.conditionals[id + 1], c, a.parent)
        ELSE [w |-> a.w, p |-> f.conditionals[id + 1]], LAMBDA r :
        [w |-> r.w, f |-> [f EXCEPT !.conditionals[id + 1] = r.p]]))

\* The EachBlock arm of the loop of Fragment::update.
LegacyUpdateEachBlock(w, f, id, c) ==
    Let(LegacyAnchorParent(w, f.each_blocks[id + 1].anchor), LAMBDA a :
    Let(IF a.w.ok THEN LegacyEachUpdate(a.w, f.each_blocks[id + 1], c, a.parent)
        ELSE [w |-> a.w, p |-> f.each_blocks[id + 1]], LAMBDA r :
        [w |-> r.w, f |-> [f EXCEPT !.each_blocks[id + 1] = r.p]]))

\* The body of the loop of Fragment::update for one DependencyType entry.
LegacyUpdateOne(w, f, dependency, c) ==
    CASE ~w.ok -> [w |-> w, f |-> f]
      [] dependency.type = "Updatable" ->
            [w |-> LegacyUpdatableUpdate(w, f.updatables[dependency.id + 1], c), f |-> f]
      [] dependency.type = "Conditional" ->
            IF f.mounted THEN LegacyUpdateConditional(w, f, dependency.id, c) ELSE [w |-> w, f |-> f]
      [] dependency.type = "EachBlock" ->
            IF f.mounted THEN LegacyUpdateEachBlock(w, f, dependency.id, c) ELSE [w |-> w, f |-> f]

RECURSIVE LegacyUpdateAll(_, _, _, _, _)
LegacyUpdateAll(w, f, deps, c, i) ==
    IF i > Len(deps) THEN [w |-> w, f |-> f]
    ELSE Let(LegacyUpdateOne(w, f, deps[i], c), LAMBDA r :
             LegacyUpdateAll(r.w, r.f, deps, c, i + 1))

\* Fragment::update
LegacyUpdate(w, f, changed, c) ==
    LegacyUpdateAll(w, f, LegacyDependencies(f.dependencies, changed, 1), c, 1)

RECURSIVE LegacyNodesOf(_), LegacyNodesOfAll(_, _)
\* The host nodes a fragment of this generation owns.
LegacyNodesOf(f) ==
    {LegacyNodes(f)[i].node : i \in 1..Len(LegacyNodes(f))}
        \cup UNION {LegacyNodesOf(f.conditionals[i].fragment) : i \in 1..Len(f.conditionals)}
        \cup UNION {IF IsSome(f.each_blocks[i].mounted_fragments)
                    THEN LegacyNodesOfAll(Unwrap(f.each_blocks[i].mounted_fragments), 1) ELSE {}
                    : i \in 1..Len(f.each_blocks)}
LegacyNodesOfAll(fs, i) ==
    IF i > Len(fs) THEN {} ELSE LegacyNodesOf(fs[i]) \cup LegacyNodesOfAll(fs, i + 1)

\* ------------------------------------------------ component/controller.rs
\* The closure Controller::new gives the EventRegistry: the component stays
\* mutably borrowed from handle_event to the end of the fragment's update.
\* handled is what handle_event did: the component it left and what it
\* returned.
ComponentRegisterEvent(w, f, handled) ==
    Let(Emit(Emit(w, [ev |-> "borrow_mut", cell |-> "component"]), [ev |-> "handle_event"]), LAMBDA w1 :
        IF handled.changed = None
        THEN [w |-> Emit(w1, [ev |-> "drop", cell |-> "component"]), f |-> f]
        ELSE Let(FragUpdate(w1, f, handled.context, Unwrap(handled.changed)), LAMBDA r :
                 [w |-> Emit(r.w, [ev |-> "drop", cell |-> "component"]), f |-> r.f]))

\* Controller::mount: mount, then full_update, under one borrow of the component.
ComponentControllerMount(w, f, c, location) ==
    Let(FragMount(Emit(w, [ev |-> "borrow_mut", cell |-> "component"]), f, location), LAMBDA m :
    Let(FragFullUpdate(m.w, m.f, c), LAMBDA r :
        [w |-> Emit(r.w, [ev |-> "drop", cell |-> "component"]), f |-> r.f]))

\* ------------------------------------ controller/, dynamic/, simple.rs
\* The parent Controller holds Simple {count}, the child Controller holds
\* BoldCount(usize) and is nested in the parent's fragment behind an
\* UpdateProxy. A world k threads the two components, the RefCell borrow
\* counts (-1: mutable, n: n shared), the log and the panic flag through one
\* call.
Parent == "parent"
Child == "child"
Components == {<<Parent, "component">>, <<Child, "component">>}
Cells == {<<who, what>> : who \in {Parent, Child}, what \in {"component", "controller", "fragment", "ref"}}
UsizeMax == 2^UsizeBits - 1

\* RefCell::borrow / borrow_mut, and the drop of the guard.
Borrow(k, cell) ==
    IF ~k.ok THEN k
    ELSE IF k.borrows[cell] < 0 THEN Panic(k, "already mutably borrowed")
    ELSE [k EXCEPT !.borrows[cell] = @ + 1]
BorrowMut(k, cell) ==
    IF ~k.ok THEN k
    ELSE IF k.borrows[cell] # 0 THEN Panic(k, "already borrowed")
    ELSE [k EXCEPT !.borrows[cell] = -1]
Release(k, cell) ==
    IF ~k.ok THEN k ELSE [k EXCEPT !.borrows[cell] = IF @ < 0 THEN 0 ELSE @ - 1]

\* A closure supplied by the component author is entered: the log keeps which
\* component cells are mutably borrowed at that moment.
Callback(k, kind, who) ==
    Emit(k, [ev |-> "callback", kind |-> kind, who |-> who,
             held |-> {c \in Components : k.borrows[c] < 0}])

\* <Simple as Component>::handle_event and <BoldCount as Component>::handle_event.
\* The arithmetic on usize panics on overflow or wraps, as the build decides
\* (wraps |-> which).
handle_event(k, who, event_id, wraps) ==
    Let(Emit(k, [ev |-> "handle_event", who |-> who, event_id |-> event_id]), LAMBDA k1 :
    CASE who = Parent /\ event_id = 0 ->
            IF k.count = 0 /\ ~wraps
            THEN [k |-> Panic(k1, "attempt to subtract with overflow"), changed |-> None]
            ELSE [k |-> [k1 EXCEPT !.count = (k.count + UsizeMax) % (UsizeMax + 1)], changed |-> Some(<<0>>)]
      [] who = Parent /\ event_id = 1 ->
            IF k.count = UsizeMax /\ ~wraps
            THEN [k |-> Panic(k1, "attempt to add with overflow"), changed |-> None]
            ELSE [k |-> [k1 EXCEPT !.count = (k.count + 1) % (UsizeMax + 1)], changed |-> Some(<<0>>)]
      [] who = Child /\ event_id = 0 ->
            [k |-> [k1 EXCEPT !.bold = 0], changed |-> Some(<<0>>)]
      [] OTHER -> [k |-> k1, changed |-> None])

\* A closure of a dynamic part of simple.rs: it borrows its component, reads
\* it, and lets go.
PartClosure(k, who, fn) ==
    Release(Borrow(Callback(k, fn, who), <<who, "component">>), <<who, "component">>)

\* changed.iter().filter_map(0 => Some(vec![0]), _ => None).flatten().collect()
Mapped(changed) == SelectSeq(changed, LAMBDA id : id = 0)

\* The adapter given to with_component (simple.rs 109-133).
proxy_update(k, changed) ==
    Let(BorrowMut(Borrow(Callback(k, "adapter", Parent), <<Parent, "component">>),
                  <<Child, "component">>), LAMBDA k1 :
    Let(IF k1.ok /\ Mapped(changed) # <<>> THEN [k1 EXCEPT !.bold = k.count] ELSE k1, LAMBDA k2 :
        [k |-> Release(Release(k2, <<Child, "component">>), <<Parent, "component">>),
         changed |-> IF Mapped(changed) = <<>> THEN None ELSE Some(Mapped(changed))]))

\* FragmentBuilder::with_component as simple.rs calls it (child, adapter,
\* bound update): the child becomes a Controller that owns the bound update
\* (Controller::bound_update), wrapped in an UpdateProxy that owns the
\* adapter, and that proxy is the nested component of the parent's fragment.
with_component ==
    [nested |-> [who \in {Parent, Child} |-> who = Parent],
     bound_update |-> [who \in {Parent, Child} |-> who = Child]]

RECURSIVE ControllerFragmentUpdate(_, _, _)

\* <Controller as Dynamic>::update behind Rc<RefCell<_>> (fragment/dynamic/mod.rs
\* 61-63, controller/mod.rs 114-116): the child Controller and its fragment
\* are mutably borrowed for the update.
ControllerUpdate(k, who, changed) ==
    Release(Release(ControllerFragmentUpdate(BorrowMut(BorrowMut(k, <<who, "controller">>),
                                                       <<who, "fragment">>), who, changed),
                    <<who, "fragment">>), <<who, "controller">>)

\* An update of the nested Controller that goes on to the bound update given
\* with it, as a notification of the child does.
UpdateProxyUpdateNotifying(k, changed) ==
    Let(proxy_update(k, changed), LAMBDA r :
        IF IsSome(r.changed) /\ r.k.ok
        THEN Callback(Emit(ControllerUpdate(r.k, Child, Unwrap(r.changed)),
                           [ev |-> "bound_update", who |-> Child, changed |-> Unwrap(r.changed)]),
                      "bound_update", Child)
        ELSE r.k)

\* UpdateProxy::update: the adapter first, the nested Controller if it says so.
UpdateProxyUpdate(k, changed) ==
    Let(proxy_update(k, changed), LAMBDA r :
        IF IsSome(r.changed) /\ r.k.ok THEN ControllerUpdate(r.k, Child, Unwrap(r.changed)) ELSE r.k)

\* NestedController::update (nested/controller.rs 24-32): the update closure
\* is run and returns nothing, then the nested Controller is updated with the
\* ids the parent was given.
NestedControllerUpdate(k, changed) ==
    Let(proxy_update(k, changed).k, LAMBDA k1 :
        IF k1.ok THEN ControllerUpdate(k1, Child, changed) ELSE k1)

\* The update of the nested component of the parent's fragment, by what build
\* made of it: an UpdateProxy or a NestedController.
NestedComponentUpdate(k, changed) ==
    IF k.proxy = "UpdateProxy" THEN UpdateProxyUpdate(k, changed) ELSE NestedControllerUpdate(k, changed)

\* The closures of the parts of a fragment, in the order build registers them:
\* the text binding, the conditional, the iterator (simple.rs 63-100), and for
\* BoldCount its text binding (simple.rs 19-27).
PartClosures(k, who) ==
    IF who = Parent
    THEN PartClosure(PartClosure(PartClosure(k, who, "get_fragment"), who, "check_condition"), who, "get_items")
    ELSE PartClosure(k, who, "get_fragment")

\* Fragment::update of the fragment of a Controller: every part when mounted,
\* the nested component last.
ControllerFragmentUpdate(k, who, changed) ==
    Let(Emit(k, [ev |-> "fragment_update", who |-> who, changed |-> changed]), LAMBDA k1 :
        IF ~k.ok \/ ~k.mounted[who] THEN k1
        ELSE Let(PartClosures(k1, who), LAMBDA k2 :
             Let(IF k2.ok THEN [k2 EXCEPT !.shown[who] = IF who = Parent THEN k2.count ELSE k2.bold]
                 ELSE k2, LAMBDA k3 :
                 IF k.nested[who] THEN NestedComponentUpdate(k3, changed) ELSE k3)))

\* An update_fragment that does not reach the fragment.
UpdateFragmentSkipped(k, who, changed) == k

\* Controller::update_fragment
update_fragment(k, who, changed) ==
    Release(ControllerFragmentUpdate(BorrowMut(k, <<who, "fragment">>), who, changed), <<who, "fragment">>)

RECURSIVE notify_changed(_, _, _)

\* The bound update given to with_component (simple.rs 139-174): the child's
\* value is copied into the parent, and the parent Controller is notified.
bound_update(k, changed) ==
    Let(Borrow(BorrowMut(Callback(k, "bound_update", Child), <<Parent, "component">>),
               <<Child, "component">>), LAMBDA k1 :
    Let(IF k1.ok /\ Mapped(changed) # <<>> THEN [k1 EXCEPT !.count = k.bold] ELSE k1, LAMBDA k2 :
        notify_changed(Release(Release(k2, <<Child, "component">>), <<Parent, "component">>),
                       Parent, Mapped(changed))))

\* A notify_changed that runs the bound update inside the block that borrows
\* the Controller, and gives the borrows back after it.
NotifyChangedHoldingBorrow(k, who, changed) ==
    Let(update_fragment(Borrow(Borrow(k, <<who, "ref">>), <<who, "controller">>), who, changed), LAMBDA k1 :
        Release(Release(IF k1.ok /\ k.bound_update[who]
                        THEN bound_update(Emit(k1, [ev |-> "bound_update", who |-> who,
                                                    changed |-> changed]), changed)
                        ELSE k1,
                        <<who, "controller">>), <<who, "ref">>))

\* ControllerRef::notify_changed: the fragment is updated under the borrow of
\* the Controller; the bound update, if there is one, runs after the borrow
\* is given back. Only the child Controller has a bound update.
notify_changed(k, who, changed) ==
    Let(Release(Release(update_fragment(Borrow(Borrow(k, <<who, "ref">>), <<who, "controller">>),
                                        who, changed),
                        <<who, "controller">>), <<who, "ref">>), LAMBDA k1 :
        IF k1.ok /\ k.bound_update[who]
        THEN bound_update(Emit(k1, [ev |-> "bound_update", who |-> who, changed |-> changed]), changed)
        ELSE k1)

\* The closure Controller::new gives the EventRegistry (controller/mod.rs 55-63).
register_event(k, who, event_id, wraps) ==
    Let(handle_event(BorrowMut(k, <<who, "component">>), who, event_id, wraps), LAMBDA r :
    Let(Emit(Release(r.k, <<who, "component">>),
             [ev |-> "handled", who |-> who, changed |-> r.changed]), LAMBDA k1 :
        IF IsSome(r.changed) /\ k1.ok THEN notify_changed(k1, who, Unwrap(r.changed)) ELSE k1))

\* Controller::mount of the parent: the fragment is mounted, the nested
\* Controller with it (Dynamic::mount, no update of its own), then full_update.
ControllerMount(k) ==
    Let(BorrowMut(k, <<Parent, "fragment">>), LAMBDA k1 :
    Let(Release(Release(BorrowMut(BorrowMut(k1, <<Child, "controller">>), <<Child, "fragment">>),
                        <<Child, "fragment">>), <<Child, "controller">>), LAMBDA k2 :
    Let(IF k2.ok THEN [k2 EXCEPT !.mounted = [who \in {Parent, Child} |-> TRUE]] ELSE k2, LAMBDA k3 :
        Release(ControllerFragmentUpdate(k3, Parent, <<0>>), <<Parent, "fragment">>))))

\* The closure Controller::new gives the EventRegistry in controller.rs 46-55:
\* handle_event under a borrow that ends with the statement, then the fragment
\* is updated under a mutable borrow of the Controller.
NestedRegisterEvent(k, who, event_id, wraps) ==
    Let(handle_event(BorrowMut(k, <<who, "component">>), who, event_id, wraps), LAMBDA r :
    Let(Emit(Release(r.k, <<who, "component">>),
             [ev |-> "handled", who |-> who, changed |-> r.changed]), LAMBDA k1 :
        IF IsSome(r.changed) /\ k1.ok
        THEN Release(ControllerFragmentUpdate(BorrowMut(k1, <<who, "controller">>), who,
                                              Unwrap(r.changed)),
                     <<who, "controller">>)
        ELSE k1))

\* Controller::mount of controller.rs 74-80 on the parent: its fragment mounts
\* the NestedController, whose mount is Controller::mount of the child (mount,
\* then full_update), then the parent's full_update.
NestedControllerMount(k) ==
    Let(BorrowMut(k, <<Child, "controller">>), LAMBDA k1 :
    Let(IF k1.ok THEN [k1 EXCEPT !.mounted[Child] = TRUE] ELSE k1, LAMBDA k2 :
    Let(Release(ControllerFragmentUpdate(k2, Child, <<0>>), <<Child, "controller">>), LAMBDA k3 :
    Let(IF k3.ok THEN [k3 EXCEPT !.mounted[Parent] = TRUE] ELSE k3, LAMBDA k4 :
        ControllerFragmentUpdate(k4, Parent, <<0>>)))))

\* ------------------------------------------- fragment/event_registry.rs
\* An EventRegistry: closures maps an event id to the Function cached for it.
\* A Function is known by the event id it passes on and by its place among the
\* Functions the registry has created.
EventRegistryNew == [closures |-> <<>>, created |-> 0]

\* A get that creates a Function whether or not one is cached.
EventRegistryGetFresh(registry, event_id) ==
    Let([event_id |-> event_id, serial |-> registry.created + 1], LAMBDA function :
        [registry |-> [closures |-> (event_id :> function) @@ registry.closures,
                       created |-> registry.created + 1],
         function |-> function])

\* A get that caches one Function at a time.
EventRegistryGetEvicting(registry, event_id) ==
    IF event_id \in DOMAIN registry.closures
    THEN [registry |-> registry, function |-> registry.closures[event_id]]
    ELSE Let([event_id |-> event_id, serial |-> registry.created + 1], LAMBDA function :
             [registry |-> [closures |-> (event_id :> function), created |-> registry.created + 1],
              function |-> function])

\* EventRegistry::get: closures.entry(event_id).or_insert_with(..)
EventRegistryGet(registry, event_id) ==
    IF event_id \in DOMAIN registry.closures
    THEN [registry |-> registry, function |-> registry.closures[event_id]]
    ELSE Let([event_id |-> event_id, serial |-> registry.created + 1], LAMBDA function :
             [registry |-> [closures |-> registry.closures @@ (event_id :> function),
                            created |-> registry.created + 1],
              function |-> function])

\* ------------------------------------------------------------ garbage
RECURSIVE NodesOf(_), NodesOfAll(_, _)
\* The host nodes a fragment owns: its static nodes, its parts' text nodes and
\* anchors, and the nodes of the fragments its parts hold.
NodesOfPart(p) ==
    CASE p.kind = "Updatable" -> {p.text_node}
      [] p.kind = "Conditional" -> {p.anchor} \cup NodesOf(p.fragment)
      [] p.kind = "Each" ->
            {p.anchor} \cup (IF IsSome(p.mounted_fragments)
                             THEN NodesOfAll(Unwrap(p.mounted_fragments), 1) ELSE {})
NodesOf(f) ==
    {f.static_nodes[i].node : i \in 1..Len(f.static_nodes)}
        \cup UNION {NodesOfPart(f.renderables[i].part) : i \in 1..Len(f.renderables)}
NodesOfAll(fs, i) == IF i > Len(fs) THEN {} ELSE NodesOf(fs[i]) \cup NodesOfAll(fs, i + 1)

RECURSIVE Attached(_, _)
\* The nodes of the host tree below (and including) n.
Attached(children, n) ==
    {n} \cup UNION {Attached(children, children[n][i]) : i \in 1..Len(children[n])}

\* A node that nothing owns and that is not in the document is dropped, and its
\* id may name a later node.
Collect(w, owned) ==
    Let(owned \cup Attached(w.children, Body), LAMBDA keep :
        [children |-> [n \in keep |-> w.children[n]], data |-> [n \in keep |-> w.data[n]]])

\* ---------------------------------------------------------------- states
Contexts == [count : 0..MaxCount, other : 0..MaxOther]
ChangedLists == {<<>>, <<0>>, <<1>>, <<0, 1>>, <<1, 0>>}
Locations == {LocationParent(Body), LocationAnchoredParent(Body, Some(Sibling))}

\* The document before anything is built: a body with one child.
InitDom == [children |-> (Body :> <<Sibling>>) @@ (Sibling :> <<>>),
            data |-> (Body :> "body") @@ (Sibling :> "footer")]

\* No node of the fragment is in the host tree: the fragment is as build or
\* detach(true) leaves it.
Unattached(d, f) == \A n \in NodesOf(f) : \A m \in DOMAIN d.children : ~Contains(d.children[m], n)

\* The generations without nested Controllers.
NoControllers == <<>>

\* What the history remembers: whether update was ever called, and the host
\* parent's child list as it was before a mount of the unattached fragment
\* (kept only across the detach that directly follows that mount).
NoHist == [updated |-> FALSE, before |-> None]

\* The generations whose root is driven through mount, update, full_update
\* and detach of the Fragment: fragment/mod.rs with the parts of
\* fragment/dom_renderable, and with the Iterators fragment/builder.rs builds.
FragmentGens == {"fragment", "dynamic"}

InitFragment ==
    /\ gen = "fragment"
    /\ ctx \in Contexts
    /\ \E b \in Builders :
          Let(Build(World(InitDom, FALSE), b), LAMBDA r :
              /\ frag = r.f
              /\ dom = Collect(r.w, NodesOf(r.f)))
    /\ loc = LocationParent(Body)
    /\ log = <<>>
    /\ op = [name |-> "build"]
    /\ ok = TRUE
    /\ hist = NoHist
    /\ ctl = NoControllers

\* How many fragments the Each and Iterator parts of a fragment hold.
Held(f) ==
    Cardinality({<<i, k>> \in (1..Len(f.renderables)) \X (1..MaxCount) :
                    /\ f.renderables[i].part.kind = "Each"
                    /\ IsSome(f.renderables[i].part.mounted_fragments)
                    /\ k <= Len(Unwrap(f.renderables[i].part.mounted_fragments))})

\* The state after one call on the root fragment that returned r.
Returned(r, o) ==
    /\ frag' = r.f
    /\ dom' = Collect(r.w, NodesOf(r.f))
    /\ log' = r.w.log
    /\ ok' = r.w.ok
    /\ op' = o

\* fragment.mount(&location)
Mount ==
    /\ gen \in FragmentGens /\ ok
    /\ \E l \in Locations :
          /\ Returned(FragMount(World(dom, FALSE), frag, l),
                      [name |-> "mount", location |-> l, was_mounted |-> frag.mounted])
          /\ loc' = l
          /\ hist' = [hist EXCEPT !.before = IF ~frag.mounted /\ Unattached(dom, frag)
                                              THEN Some(dom.children[l.parent])
                                              ELSE None]
    /\ UNCHANGED <<gen, ctl, ctx>>

\* fragment.update(&context, changed)
Update ==
    /\ gen \in FragmentGens /\ ok
    /\ \E changed \in ChangedLists :
          Returned(FragUpdate(World(dom, FALSE), frag, ctx, changed),
                   [name |-> "update", changed |-> changed, was_mounted |-> frag.mounted])
    /\ hist' = [updated |-> TRUE, before |-> None]
    /\ UNCHANGED <<gen, ctl, ctx, loc>>

\* fragment.full_update(&context)
FullUpdate ==
    /\ gen \in FragmentGens /\ ok
    /\ \E rev \in BOOLEAN :
          Returned(FragFullUpdate(World(dom, rev), frag, ctx), [name |-> "full_update", rev |-> rev])
    /\ hist' = [updated |-> TRUE, before |-> None]
    /\ UNCHANGED <<gen, ctl, ctx, loc>>

\* fragment.detach(top_level)
Detach ==
    /\ gen \in FragmentGens /\ ok
    /\ \E top_level \in BOOLEAN :
          Returned(FragDetach(World(dom, FALSE), frag, top_level),
                   [name |-> "detach", top_level |-> top_level, held |-> Held(frag)])
    /\ hist' = [hist EXCEPT !.before = IF op.name = "mount" THEN @ ELSE None]
    /\ UNCHANGED <<gen, ctl, ctx, loc>>

\* The component state changes between two calls, one field at a time.
Mutate ==
    /\ gen \in FragmentGens \cup {"legacy"} /\ ok
    /\ \E c \in Contexts \ {ctx} :
          /\ c.count = ctx.count \/ c.other = ctx.other
          /\ ctx' = c
    /\ op' = [name |-> "mutate"]
    /\ log' = <<>>
    /\ hist' = [hist EXCEPT !.before = None]
    /\ UNCHANGED <<gen, ctl, dom, frag, loc, ok>>

Init == InitFragment
Next == Mount \/ Update \/ FullUpdate \/ Detach \/ Mutate
Spec == Init /\ [][Next]_vars

\* The same calls on the fragments of faulty builders, and of a sound one.
InitFaulty ==
    /\ gen = "fragment"
    /\ ctx \in Contexts
    /\ \E b \in FaultyBuilders \cup {TwoTextBuilder} :
          Let(Build(World(InitDom, FALSE), b), LAMBDA r :
              /\ frag = r.f
              /\ dom = Collect(r.w, NodesOf(r.f)))
    /\ loc = LocationParent(Body)
    /\ log = <<>>
    /\ op = [name |-> "build"]
    /\ ok = TRUE
    /\ hist = NoHist
    /\ ctl = NoControllers
SpecFaulty == InitFaulty /\ [][Next]_vars

\* ------------------------------------------- states, component/fragment.rs
InitLegacy ==
    /\ gen = "legacy"
    /\ ctx \in Contexts
    /\ \E b \in Builders :
          Let(LegacyBuild(World(InitDom, FALSE), b), LAMBDA r :
              /\ frag = r.f
              /\ dom = Collect(r.w, LegacyNodesOf(r.f)))
    /\ loc = LocationParent(Body)
    /\ log = <<>>
    /\ op = [name |-> "build"]
    /\ ok = TRUE
    /\ hist = NoHist
    /\ ctl = NoControllers

ReturnedLegacy(r, o) ==
    /\ frag' = r.f
    /\ dom' = Collect(r.w, LegacyNodesOf(r.f))
    /\ log' = r.w.log
    /\ ok' = r.w.ok
    /\ op' = o

\* fragment.mount(&context, &target, anchor)
MountLegacy ==
    /\ gen = "legacy" /\ ok
    /\ \E l \in Locations :
          /\ ReturnedLegacy(LegacyMount(World(dom, FALSE), frag, ctx, l.parent, l.anchor),
                            [name |-> "mount", location |-> l, was_mounted |-> frag.mounted])
          /\ loc' = IF frag.mounted THEN loc ELSE l
    /\ hist' = [hist EXCEPT !.before = None]
    /\ UNCHANGED <<gen, ctl, ctx>>

\* fragment.update(changed, &context)
UpdateLegacy ==
    /\ gen = "legacy" /\ ok
    /\ \E changed \in ChangedLists :
          ReturnedLegacy(LegacyUpdate(World(dom, FALSE), frag, changed, ctx),
                         [name |-> "update", changed |-> changed, was_mounted |-> frag.mounted])
    /\ hist' = [updated |-> TRUE, before |-> None]
    /\ UNCHANGED <<gen, ctl, ctx, loc>>

\* fragment.detach()
DetachLegacy ==
    /\ gen = "legacy" /\ ok
    /\ ReturnedLegacy(LegacyDetach(World(dom, FALSE), frag), [name |-> "detach", was_mounted |-> frag.mounted])
    /\ hist' = [hist EXCEPT !.before = None]
    /\ UNCHANGED <<gen, ctl, ctx, loc>>

NextLegacy == MountLegacy \/ UpdateLegacy \/ DetachLegacy \/ Mutate
SpecLegacy == InitLegacy /\ [][NextLegacy]_vars

\* ------------------------------------------- states, fragment/builder.rs
InitDynamic ==
    /\ gen = "dynamic"
    /\ ctx \in Contexts
    /\ \E b \in DynamicBuilders :
          Let(Build(World(InitDom, FALSE), b), LAMBDA r :
              /\ frag = r.f
              /\ dom = Collect(r.w, NodesOf(r.f)))
    /\ loc = LocationParent(Body)
    /\ log = <<>>
    /\ op = [name |-> "build"]
    /\ ok = TRUE
    /\ hist = NoHist
    /\ ctl = NoControllers

\* A mount of the Controller that leaves out the full update.
DynamicControllerMountOnly(w, f, c, location) == FragMount(w, f, location)

\* Controller::mount (controller/mod.rs 84-92): the fragment is mounted at the
\* location, then fully updated.
DynamicControllerMount(w, f, c, location) ==
    Let(FragMount(w, f, location), LAMBDA m : FragFullUpdate(m.w, m.f, c))

\* controller.mount(&location)
MountDynamic ==
    /\ gen = "dynamic" /\ ok
    /\ \E l \in Locations, rev \in BOOLEAN :
          /\ Returned(DynamicControllerMount(World(dom, rev), frag, ctx, l),
                      [name |-> "controller_mount", location |-> l, was_mounted |-> frag.mounted])
          /\ loc' = l
    /\ hist' = [updated |-> TRUE, before |-> None]
    /\ UNCHANGED <<gen, ctl, ctx>>

\* The host dispatches an event to the closure of the Controller (controller/
\* mod.rs 55-63): Simple::handle_event, then the fragment's update with the ids
\* it returned. The count stays within MaxCount.
FireDynamic ==
    /\ gen = "dynamic" /\ ok
    /\ \E event_id \in 0..MaxEvent, wraps \in BOOLEAN :
          Let(handle_event([count |-> ctx.count, bold |-> 0, log |-> <<>>, ok |-> TRUE],
                           Parent, event_id, wraps), LAMBDA h :
          Let([name |-> "fire", event_id |-> event_id, changed |-> h.changed, count |-> ctx.count,
               was_mounted |-> frag.mounted], LAMBDA o :
              /\ h.k.count <= MaxCount
              /\ ctx' = [ctx EXCEPT !.count = h.k.count]
              /\ IF h.k.ok /\ IsSome(h.changed)
                 THEN Returned(FragUpdate(World(dom, FALSE), frag, [ctx EXCEPT !.count = h.k.count],
                                          Unwrap(h.changed)), o)
                 ELSE /\ op' = o
                      /\ log' = h.k.log
                      /\ ok' = h.k.ok
                      /\ UNCHANGED <<frag, dom>>))
    /\ hist' = [updated |-> TRUE, before |-> None]
    /\ UNCHANGED <<gen, ctl, loc>>

NextDynamic == Mount \/ Update \/ FullUpdate \/ Detach \/ Mutate \/ MountDynamic \/ FireDynamic
SpecDynamic == InitDynamic /\ [][NextDynamic]_vars

\* ---------------------------------------- states, component/controller.rs
InitComponent ==
    /\ gen = "component"
    /\ ctx \in Contexts
    /\ \E b \in Builders :
          Let(Build(World(InitDom, FALSE), b), LAMBDA r :
              /\ frag = r.f
              /\ dom = Collect(r.w, NodesOf(r.f)))
    /\ loc = LocationParent(Body)
    /\ log = <<>>
    /\ op = [name |-> "build"]
    /\ ok = TRUE
    /\ hist = NoHist
    /\ ctl = NoControllers

\* controller.mount(&location)
MountComponent ==
    /\ gen = "component" /\ ok
    /\ \E l \in Locations, rev \in BOOLEAN :
          /\ Returned(ComponentControllerMount(World(dom, rev), frag, ctx, l),
                      [name |-> "mount", location |-> l, was_mounted |-> frag.mounted])
          /\ loc' = l
    /\ UNCHANGED <<gen, ctl, ctx, hist>>

\* The host dispatches an event: handle_event leaves the component as it
\* likes and returns None or the ids it changed.
FireComponent ==
    /\ gen = "component" /\ ok
    /\ \E c \in Contexts, changed \in {None} \cup {Some(l) : l \in ChangedLists} :
          /\ Returned(ComponentRegisterEvent(World(dom, FALSE), frag,
                                             [context |-> c, changed |-> changed]),
                      [name |-> "fire", changed |-> changed, was_mounted |-> frag.mounted])
          /\ ctx' = c
    /\ UNCHANGED <<gen, ctl, loc, hist>>

NextComponent == MountComponent \/ FireComponent
SpecComponent == InitComponent /\ [][NextComponent]_vars

\* --------------------------------------- states, controller/ and simple.rs
\* The registries after build: Node::create_node has called get once per event
\* a node of the fragment listens to (simple.rs 28, 70, 72).
InitClosures ==
    [who \in {Parent, Child} |->
        IF who = Parent THEN EventRegistryGet(EventRegistryGet(EventRegistryNew, 0).registry, 1).registry
        ELSE EventRegistryGet(EventRegistryNew, 0).registry]

InitController ==
    /\ gen = "controller"
    /\ ctl = [count |-> 0, bold |-> 0,
              mounted |-> [who \in {Parent, Child} |-> FALSE],
              shown |-> [who \in {Parent, Child} |-> None],
              registry |-> InitClosures,
              proxy |-> "UpdateProxy",
              nested |-> with_component.nested,
              bound_update |-> with_component.bound_update]
    /\ ctx = 0
    /\ dom = InitDom
    /\ frag = FragmentNew
    /\ loc = LocationParent(Body)
    /\ log = <<>>
    /\ op = [name |-> "build"]
    /\ ok = TRUE
    /\ hist = NoHist

\* The generations with a nested Controller.
ControllerGens == {"controller", "nested"}

\* The world a call on the Controllers starts in: no cell is borrowed.
Cycle(c) ==
    [count |-> c.count, bold |-> c.bold, mounted |-> c.mounted, shown |-> c.shown,
     nested |-> c.nested, bound_update |-> c.bound_update, proxy |-> c.proxy,
     borrows |-> [cell \in Cells |-> 0], log |-> <<>>, ok |-> TRUE]

ReturnedController(k, o) ==
    /\ ctl' = [ctl EXCEPT !.count = k.count, !.bold = k.bold, !.mounted = k.mounted,
                          !.shown = k.shown]
    /\ log' = k.log
    /\ ok' = k.ok
    /\ op' = o
    /\ UNCHANGED <<gen, ctx, dom, frag, loc, hist>>

\* Controller::mount on the parent Controller.
MountController ==
    /\ gen = "controller" /\ ok
    /\ ~ctl.mounted[Parent]
    /\ ReturnedController(ControllerMount(Cycle(ctl)), [name |-> "mount"])

\* Node::create_node asks the registry for the Function of an event a node
\* listens to: EventRegistry::get(event_id).
RegistryGet ==
    /\ gen \in ControllerGens /\ ok
    /\ \E who \in {Parent, Child}, event_id \in 0..MaxEvent :
          Let(EventRegistryGet(ctl.registry[who], event_id), LAMBDA got :
              /\ ctl' = [ctl EXCEPT !.registry[who] = got.registry]
              /\ op' = [name |-> "get", who |-> who, event_id |-> event_id,
                        function |-> got.function,
                        cached |-> event_id \in DOMAIN ctl.registry[who].closures])
    /\ log' = <<>>
    /\ UNCHANGED <<gen, ctx, dom, frag, loc, ok, hist>>

\* The host dispatches an event to a cached closure.
Fire ==
    /\ gen = "controller" /\ ok
    /\ \E who \in {Parent, Child}, wraps \in BOOLEAN :
       \E event_id \in DOMAIN ctl.registry[who].closures :
          ReturnedController(register_event(Cycle(ctl), who, event_id, wraps),
                             [name |-> "fire", who |-> who, event_id |-> event_id])

NextController == MountController \/ RegistryGet \/ Fire
SpecController == InitController /\ [][NextController]_vars

\* ------------------------- states, controller.rs and nested/controller.rs
\* The parent and the child of simple.rs under the Controller of controller.rs:
\* the child is nested as a NestedController and there is no bound update.
InitNested ==
    /\ gen = "nested"
    /\ ctl = [count |-> 0, bold |-> 0,
              mounted |-> [who \in {Parent, Child} |-> FALSE],
              shown |-> [who \in {Parent, Child} |-> None],
              registry |-> InitClosures,
              proxy |-> "NestedController",
              nested |-> [who \in {Parent, Child} |-> who = Parent],
              bound_update |-> [who \in {Parent, Child} |-> FALSE]]
    /\ ctx = 0
    /\ dom = InitDom
    /\ frag = FragmentNew
    /\ loc = LocationParent(Body)
    /\ log = <<>>
    /\ op = [name |-> "build"]
    /\ ok = TRUE
    /\ hist = NoHist

\* Controller::mount on the parent Controller.
MountNested ==
    /\ gen = "nested" /\ ok
    /\ ~ctl.mounted[Parent]
    /\ ReturnedController(NestedControllerMount(Cycle(ctl)), [name |-> "mount"])

\* The host dispatches an event to a cached closure.
FireNested ==
    /\ gen = "nested" /\ ok
    /\ \E who \in {Parent, Child}, wraps \in BOOLEAN :
       \E event_id \in DOMAIN ctl.registry[who].closures :
          ReturnedController(NestedRegisterEvent(Cycle(ctl), who, event_id, wraps),
                             [name |-> "fire", who |-> who, event_id |-> event_id])

NextNested == MountNested \/ RegistryGet \/ FireNested
SpecNested == InitNested /\ [][NextNested]_vars

\* ------------------------------- states, framework scheduler/mod.rs, lib.rs
\* The Scheduler of the framework crate, in the generation of scheduler/mod.rs
\* ("scheduler": add_event always calls run, run asks running and renders once
\* the queue is empty) and in that of lib.rs ("scheduler_lib": add_event asks
\* running, run renders after every event). ctl is the Scheduler:
\*   running, events (the VecDeque), components (the count of each component),
\*   self_ref (whether there is one),
\*   pc: "idle" between add_event calls, "run" inside the while loop of run.
\* The Rc<RefCell<Scheduler>> is mutably borrowed from the callback's
\* borrow_mut() to the return of add_event, that is exactly while pc is "run".
SchedulerGens == {"scheduler", "scheduler_lib"}
MaxComponents == 2

\* Scheduler::new / Scheduler::new_with_ref
SchedulerNew(self_ref) ==
    [running |-> FALSE, events |-> <<>>, components |-> <<>>,
     self_ref |-> self_ref, pc |-> "idle"]

InitScheduler ==
    /\ gen \in SchedulerGens
    /\ \E self_ref \in BOOLEAN :
          /\ gen = "scheduler_lib" => self_ref
          /\ ctl = SchedulerNew(self_ref)
    /\ ctx = [count |-> 0, other |-> 0]
    /\ dom = InitDom
    /\ frag = FragmentNew
    /\ loc = LocationParent(Body)
    /\ log = <<>>
    /\ op = [name |-> "new"]
    /\ ok = TRUE
    /\ hist = NoHist

\* Scheduler::add_component: the id is the index in components.
SchedulerAddComponent ==
    /\ gen \in SchedulerGens /\ ok
    /\ ctl.pc = "idle"
    /\ Len(ctl.components) < MaxComponents
    /\ ctl' = [ctl EXCEPT !.components = Append(@, 0)]
    /\ op' = [name |-> "add_component", id |-> Len(ctl.components)]
    /\ log' = <<>>
    /\ UNCHANGED <<gen, ctx, dom, frag, loc, ok, hist>>

\* Scheduler::add_event, called by the callback of a DOM event through
\* scheduler.borrow_mut() (or by main): the event is pushed and run is entered,
\* up to the while loop. In scheduler/mod.rs run returns early when running is
\* set; in lib.rs add_event calls run only when it is not.
SchedulerAddEvent ==
    /\ gen \in SchedulerGens /\ ok
    /\ ctl.pc = "idle"
    /\ \E event \in 0..MaxEvent :
          /\ event < Len(ctl.components) => ctl.components[event + 1] < MaxCount
          /\ ctl' = [ctl EXCEPT !.events = Append(@, event),
                                !.pc = IF ctl.running THEN "idle" ELSE "run"]
          /\ op' = [name |-> "add_event", event |-> event]
    /\ log' = <<>>
    /\ UNCHANGED <<gen, ctx, dom, frag, loc, ok, hist>>

\* One turn of `while let Some(event) = self.events.pop_front()`: the
\* component of that index, if there is one, handles the event (and in lib.rs
\* is rendered).
SchedulerRunEvent ==
    /\ gen \in SchedulerGens /\ ok
    /\ ctl.pc = "run" /\ Len(ctl.events) > 0
    /\ Let(Head(ctl.events), LAMBDA event :
          /\ ctl' = IF event < Len(ctl.components)
                    THEN [ctl EXCEPT !.events = Tail(@), !.components[event + 1] = @ + 1]
                    ELSE [ctl EXCEPT !.events = Tail(@)]
          /\ log' = IF event < Len(ctl.components)
                    THEN log \o <<[ev |-> "handle_event", id |-> event]>>
                             \o (IF gen = "scheduler_lib" THEN <<[ev |-> "render", id |-> event]>> ELSE <<>>)
                    ELSE log
          /\ op' = [name |-> "run_event", event |-> event])
    /\ UNCHANGED <<gen, ctx, dom, frag, loc, ok, hist>>

\* The end of run, the queue being empty: in scheduler/mod.rs
\* self.render().unwrap(), whose callback needs the self reference (expect "to
\* have self ref") and which renders every component; then running = false,
\* and add_event returns.
SchedulerRunEnd ==
    /\ gen \in SchedulerGens /\ ok
    /\ ctl.pc = "run" /\ Len(ctl.events) = 0
    /\ IF gen = "scheduler" /\ ~ctl.self_ref
       THEN /\ ok' = FALSE
            /\ log' = Append(log, [ev |-> "panic", why |-> "to have self ref"])
            /\ UNCHANGED ctl
       ELSE /\ ok' = TRUE
            /\ log' = IF gen = "scheduler"
                      THEN log \o [i \in 1..Len(ctl.components) |-> [ev |-> "render", id |-> i - 1]]
                      ELSE log
            /\ ctl' = [ctl EXCEPT !.running = FALSE, !.pc = "idle"]
    /\ op' = [name |-> "run_end"]
    /\ UNCHANGED <<gen, ctx, dom, frag, loc, hist>>

\* A DOM event that is dispatched while add_event has not returned (from
\* inside the handling of an event or a render): its callback calls
\* scheduler.borrow_mut() on the cell that is mutably borrowed, which panics.
SchedulerReenter ==
    /\ gen \in SchedulerGens /\ ok
    /\ ctl.pc = "run"
    /\ \E event \in 0..MaxEvent :
          op' = [name |-> "reenter", event |-> event]
    /\ ok' = FALSE
    /\ log' = Append(log, [ev |-> "panic", why |-> "already borrowed"])
    /\ UNCHANGED <<gen, ctx, dom, frag, loc, hist, ctl>>

NextScheduler ==
    SchedulerAddComponent \/ SchedulerAddEvent \/ SchedulerRunEvent \/ SchedulerRunEnd \/ SchedulerReenter
SpecScheduler == InitScheduler /\ [][NextScheduler]_vars

\* ------------------------------------- states, util/hash_map_list.rs Iter
\* How many pairs are inserted, and the keys and values they are made of.
MaxPairs == 4
IterKeys == 0..2
IterValues == 0..1

\* std HashMap::keys(): every key once, in an order the map chooses.
HashMapKeyOrders(m) ==
    {s \in [1..Cardinality(DOMAIN m) -> DOMAIN m] : \A i, j \in DOMAIN s : s[i] = s[j] => i = j}

\* Iter::new: key_iter holds the keys still to come, current the key at hand
\* with the values of its slice iterator still to come.
IterNew(keys) == [key_iter |-> keys, current |-> None]

RECURSIVE IterNext(_, _)
\* <Iter as Iterator>::next: current is taken, or made of the next key; the next
\* value of its slice is returned, or else what self.next() returns; then
\* current is set to the key and the slice iterator this call worked on.
IterNext(collection, it) ==
    Let(IF IsSome(it.current) THEN it.current
        ELSE IF it.key_iter = <<>> THEN None
        ELSE IF Head(it.key_iter) \in DOMAIN collection
             THEN Some([key |-> Head(it.key_iter), values |-> collection[Head(it.key_iter)]])
             ELSE None, LAMBDA current :
    Let([key_iter |-> IF IsSome(it.current) \/ it.key_iter = <<>> THEN it.key_iter
                      ELSE Tail(it.key_iter),
         current |-> None], LAMBDA taken :
        IF ~IsSome(current) THEN [it |-> taken, value |-> None]
        ELSE Let(Unwrap(current), LAMBDA cur :
                 IF cur.values # <<>>
                 THEN [it |-> [taken EXCEPT !.current = Some([key |-> cur.key,
                                                              values |-> Tail(cur.values)])],
                       value |-> Some(<<cur.key, Head(cur.values)>>)]
                 ELSE Let(IterNext(collection, taken), LAMBDA r :
                          [it |-> [r.it EXCEPT !.current = Some(cur)], value |-> r.value]))))

InitIter ==
    /\ gen = "hash_map_list"
    /\ ctl = [collection |-> HashMapListNew, pairs |-> 0, iter |-> None, yielded |-> <<>>,
              ended |-> FALSE]
    /\ ctx = [count |-> 0, other |-> 0]
    /\ dom = InitDom
    /\ frag = FragmentNew
    /\ loc = LocationParent(Body)
    /\ log = <<>>
    /\ op = [name |-> "new"]
    /\ ok = TRUE
    /\ hist = NoHist

\* list.insert(k, v), while no iterator borrows the list.
IterInsert ==
    /\ gen = "hash_map_list" /\ ~IsSome(ctl.iter)
    /\ ctl.pairs < MaxPairs
    /\ \E k \in IterKeys, v \in IterValues :
          /\ ctl' = [ctl EXCEPT !.collection = HashMapListInsert(@, k, v), !.pairs = @ + 1]
          /\ op' = [name |-> "insert", k |-> k, v |-> v]
    /\ UNCHANGED <<gen, ctx, dom, frag, loc, log, ok, hist>>

\* list.iter()
IterIter ==
    /\ gen = "hash_map_list" /\ ~IsSome(ctl.iter)
    /\ \E keys \in HashMapKeyOrders(ctl.collection) :
          /\ ctl' = [ctl EXCEPT !.iter = Some(IterNew(keys)), !.yielded = <<>>, !.ended = FALSE]
          /\ op' = [name |-> "iter", keys |-> keys]
    /\ UNCHANGED <<gen, ctx, dom, frag, loc, log, ok, hist>>

\* iter.next(), until it has returned None.
IterStep ==
    /\ gen = "hash_map_list" /\ IsSome(ctl.iter) /\ ~ctl.ended
    /\ Let(IterNext(ctl.collection, Unwrap(ctl.iter)), LAMBDA r :
           /\ ctl' = [ctl EXCEPT !.iter = Some(r.it),
                                 !.yielded = IF IsSome(r.value) THEN Append(@, Unwrap(r.value)) ELSE @,
                                 !.ended = ~IsSome(r.value)]
           /\ op' = [name |-> "next", value |-> r.value])
    /\ UNCHANGED <<gen, ctx, dom, frag, loc, log, ok, hist>>

\* The iterator is dropped after it has ended.
IterDrop ==
    /\ gen = "hash_map_list" /\ IsSome(ctl.iter) /\ ctl.ended
    /\ ctl' = [ctl EXCEPT !.iter = None, !.yielded = <<>>, !.ended = FALSE]
    /\ op' = [name |-> "drop"]
    /\ UNCHANGED <<gen, ctx, dom, frag, loc, log, ok, hist>>

NextIter == IterInsert \/ IterIter \/ IterStep \/ IterDrop
SpecIter == InitIter /\ [][NextIter]_vars

\* ------------------------------------------------------------ properties
\* What the log of the last call says.
Events(l, ev) == {j \in 1..Len(l) : l[j].ev = ev}
\* The ids of the parts of f whose update the log records.
Invoked(l, f) ==
    {id \in 0..(Len(f.renderables) - 1) :
        \E j \in Events(l, "update") : l[j].part = PartNode(f.renderables[id + 1].part)}
\* The ids of the parts of f registered against one of the ids in changed.
Registered(f, changed) ==
    {id \in 0..(Len(f.renderables) - 1) :
        \E k \in Range(changed) : k \in DOMAIN f.dependencies /\ id \in Range(f.dependencies[k])}
\* The log records no update: no part invoked, no closure called, no text written.
NoUpdateIn(l) == Events(l, "update") \cup Events(l, "call") \cup Events(l, "set_data") = {}

\* C1: update(S) on a mounted fragment invokes exactly the parts registered
\* against an id of S.
C1_SelectiveDispatch ==
    (gen = "fragment" /\ ok /\ op.name = "update" /\ frag.mounted)
        => Invoked(log, frag) = Registered(frag, op.changed)

\* The nodes of the top-level parts of the root fragment, in registration order.
PartOrder ==
    IF gen = "legacy"
    THEN [i \in 1..(Len(LegacyNodes(frag)) - Len(frag.pieces)) |->
              LegacyNodes(frag)[Len(frag.pieces) + i].node]
    ELSE [i \in 1..Len(frag.renderables) |-> PartNode(frag.renderables[i].part)]

\* How many mutable borrows of the component cell are live at entry j of the log.
HeldAt(l, j) ==
    Cardinality({i \in Events(l, "borrow_mut") : i < j}) - Cardinality({i \in Events(l, "drop") : i < j})

\* C3: during an event dispatch no closure of the component author (a part's
\* closure, the adapter, the bound update) is entered while the component
\* cell is mutably borrowed.
C3_ReentrancySafety ==
    (ok /\ op.name = "fire") =>
        /\ \A j \in Events(log, "callback") : log[j].held = {}
        /\ \A j \in Events(log, "call") : HeldAt(log, j) = 0

\* C2: one dispatched event gives the root fragment of each Controller at
\* most one update call.
C2_OneUpdatePass ==
    (ok /\ op.name = "fire") =>
        \A who \in {Parent, Child} :
            \A i, j \in Events(log, "fragment_update") :
                (log[i].who = who /\ log[j].who = who) => i = j

\* What handle_event returned in the last dispatch.
HandledIn(l) == {l[j].changed : j \in Events(l, "handled")}

\* C4: a cached closure that fires calls handle_event once, with its id; on
\* None nothing else happens; on Some(ids) the fragment of the Controller gets
\* update(ids) first and the bound update, if there is one, gets ids after it.
C4_EventCycle ==
    (gen = "controller" /\ ok /\ op.name = "fire") =>
        /\ \E j \in 1..Len(log) :
              /\ Events(log, "handle_event") = {j}
              /\ log[j].who = op.who /\ log[j].event_id = op.event_id
        /\ HandledIn(log) = {None} =>
              Events(log, "fragment_update") \cup Events(log, "bound_update") = {}
        /\ \A ids \in ChangedLists : HandledIn(log) = {Some(ids)} =>
              /\ \E i \in Events(log, "fragment_update") :
                    /\ log[i].who = op.who /\ log[i].changed = ids
                    /\ \A j \in Events(log, "fragment_update") \cup Events(log, "bound_update") : i <= j
              /\ ctl.bound_update[op.who] =>
                    \E j \in Events(log, "bound_update") : log[j].who = op.who /\ log[j].changed = ids
              /\ ~ctl.bound_update[op.who] => Events(log, "bound_update") = {}

C4_Witness ==
    /\ gen = "controller" /\ ok /\ op.name = "fire" /\ op.who = Child
    /\ ctl.mounted[Child]
    /\ Events(log, "bound_update") # {}

C4_WitnessNone ==
    /\ gen = "controller" /\ ok /\ op.name = "fire" /\ HandledIn(log) = {None}

\* The parts that render a fragment conditionally: a Conditional, or the
\* Iterator with_conditional builds.
IsConditional(p) == p.kind = "Conditional" \/ (p.kind = "Each" /\ p.get_items = "then_even")
\* The instances a conditional part holds as its nested fragment.
NestedIds(p) ==
    IF p.kind = "Conditional" THEN {FragmentId(p.fragment)}
    ELSE IF IsSome(p.mounted_fragments)
         THEN {FragmentId(Unwrap(p.mounted_fragments)[i]) : i \in 1..Len(Unwrap(p.mounted_fragments))}
         ELSE {}
\* The mount and detach calls the log records on one of the instances ids.
MountCalls(l, ids) == {j \in Events(l, "fragment_mount") \cup Events(l, "fragment_detach") : l[j].id \in ids}

\* C11: once an update has settled a conditional part, a further update under
\* the same state makes no mount and no detach call on its nested fragment.
C11_ConditionalIdempotence ==
    (gen \in FragmentGens /\ ok /\ frag.mounted /\ op.name \in {"update", "full_update"}) =>
        \A changed \in ChangedLists :
            Let(FragUpdate(World(dom, FALSE), frag, ctx, changed), LAMBDA r :
                \A i \in 1..Len(frag.renderables) :
                    IsConditional(frag.renderables[i].part) =>
                        MountCalls(r.w.log, NestedIds(frag.renderables[i].part)
                                                \cup NestedIds(r.f.renderables[i].part)) = {})

\* The nodes of a fragment that mount puts at the location it is given, in the
\* order mount inserts them.
TopLevel(f) ==
    SelectSeq([i \in 1..Len(f.static_nodes) |-> f.static_nodes[i]], LAMBDA e : ~IsSome(e.location))
LegacyTopLevel(f) == SelectSeq(LegacyNodes(f), LAMBDA e : ~IsSome(e.location))
TopLevelParts(f) ==
    SelectSeq([i \in 1..Len(f.renderables) |-> f.renderables[i]], LAMBDA e : ~IsSome(e.location))
TopLevelNodes(f) ==
    [i \in 1..Len(TopLevel(f)) |-> TopLevel(f)[i].node]
        \o [i \in 1..Len(TopLevelParts(f)) |-> PartNode(TopLevelParts(f)[i].part)]
LegacyTopLevelNodes(f) == [i \in 1..Len(LegacyTopLevel(f)) |-> LegacyTopLevel(f)[i].node]
\* The nodes are siblings of the anchor: in their order, next to one another,
\* the last of them next before the anchor.
PlacedBefore(w, nodes, anchor) ==
    /\ IsSome(ParentNode(w, anchor))
    /\ Let(w.children[Unwrap(ParentNode(w, anchor))], LAMBDA ch :
       Let(CHOOSE k \in 1..Len(ch) : ch[k] = anchor, LAMBDA k :
           /\ k > Len(nodes)
           /\ \A i \in 1..Len(nodes) : ch[k - Len(nodes) + i - 1] = nodes[i]))
\* None of the nodes is in a child list.
OutOfTree(w, nodes) == \A i \in 1..Len(nodes) : ~IsSome(ParentNode(w, nodes[i]))
\* The log records a mount of f and, after it, an update of every part of f.
MountedThenFullUpdated(l, f) ==
    \E m \in Events(l, "fragment_mount") :
        /\ l[m].id = FragmentId(f)
        /\ \A i \in 1..Len(f.renderables) :
              \E j \in Events(l, "update") : j > m /\ l[j].part = PartNode(f.renderables[i].part)
\* What the claim says of one call of Conditional::update: p before, r after.
ConditionalFollows(p, r, c) ==
    Let(CheckCondition(p.check_condition, c), LAMBDA should_mount :
        /\ r.w.ok
        /\ r.p.fragment_mounted = should_mount
        /\ r.p.fragment.mounted = should_mount
        /\ (~p.fragment_mounted /\ should_mount) =>
              /\ PlacedBefore(r.w, TopLevelNodes(r.p.fragment), p.anchor)
              /\ MountedThenFullUpdated(r.w.log, p.fragment)
        /\ (p.fragment_mounted /\ ~should_mount) =>
              /\ \E j \in Events(r.w.log, "fragment_detach") :
                    r.w.log[j].id = FragmentId(p.fragment) /\ r.w.log[j].top_level
              /\ OutOfTree(r.w, TopLevelNodes(p.fragment))
              /\ IsSome(ParentNode(r.w, p.anchor)))
\* The same of the Conditional of component/fragment.rs, whose flag is the
\* nested fragment's own and whose mount takes the context.
LegacyConditionalFollows(p, r, c) ==
    Let(CheckCondition(p.check_condition, c), LAMBDA desired_state :
        /\ r.w.ok
        /\ r.p.fragment.mounted = desired_state
        /\ (~p.fragment.mounted /\ desired_state) =>
              /\ PlacedBefore(r.w, LegacyTopLevelNodes(r.p.fragment), p.anchor)
              /\ \A i \in 1..Len(p.fragment.updatables) :
                    r.w.data[p.fragment.updatables[i].text_node]
                        = GetText(p.fragment.updatables[i].get_text, c)
        /\ (p.fragment.mounted /\ ~desired_state) =>
              /\ OutOfTree(r.w, LegacyTopLevelNodes(p.fragment))
              /\ IsSome(ParentNode(r.w, p.anchor)))

\* C12: an update of a Conditional whose anchor is in the tree leaves the nested
\* fragment mounted exactly if the condition holds of the state given; turning
\* true mounts it next before the anchor and updates all of it, turning false
\* detaches it as top level and leaves the anchor in the tree.
C12_ConditionalFollowsCondition ==
    /\ (gen = "fragment" /\ ok /\ frag.mounted) =>
          \A i \in 1..Len(frag.renderables) : \A c \in Contexts : \A changed \in ChangedLists :
              Let(frag.renderables[i].part, LAMBDA p :
                  (p.kind = "Conditional" /\ IsSome(ParentNode(World(dom, FALSE), p.anchor))) =>
                      ConditionalFollows(p, PartUpdate(World(dom, FALSE), p, c, changed), c))
    /\ (gen = "legacy" /\ ok /\ frag.mounted) =>
          \A i \in 1..Len(frag.conditionals) : \A c \in Contexts :
              Let(frag.conditionals[i], LAMBDA p :
                  IsSome(ParentNode(World(dom, FALSE), p.anchor)) =>
                      LegacyConditionalFollows(p,
                          LegacyConditionalUpdate(World(dom, FALSE), p, c,
                                                  Unwrap(ParentNode(World(dom, FALSE), p.anchor))), c))

\* An update has run on a mounted fragment and left a Conditional with its
\* nested fragment mounted next before the anchor.
C12_Witness ==
    /\ gen = "fragment" /\ ok /\ frag.mounted /\ op.name = "update" /\ op.was_mounted
    /\ \E i \in 1..Len(frag.renderables) :
          /\ frag.renderables[i].part.kind = "Conditional"
          /\ frag.renderables[i].part.fragment_mounted
          /\ CheckCondition(frag.renderables[i].part.check_condition, ctx)
          /\ PlacedBefore(World(dom, FALSE), TopLevelNodes(frag.renderables[i].part.fragment),
                          frag.renderables[i].part.anchor)

\* The fragments an Each holds.
Live(p) == IF IsSome(p.mounted_fragments) THEN Unwrap(p.mounted_fragments) ELSE <<>>
\* What the claim says of one call of Each::update: p before, r after.
EachRebuilt(p, r, c) ==
    Let(Len(GetItems(p.get_items, c)), LAMBDA m :
        /\ r.w.ok
        /\ Len(Live(r.p)) = m
        /\ \A k \in 1..m : Live(r.p)[k].mounted
        /\ \A k \in 1..Len(Live(p)) :
              /\ Cardinality({j \in Events(r.w.log, "fragment_detach") :
                                 r.w.log[j].id = FragmentId(Live(p)[k])}) = 1
              /\ \A j \in Events(r.w.log, "fragment_detach") :
                    r.w.log[j].id = FragmentId(Live(p)[k]) => r.w.log[j].top_level
        /\ \A k \in 1..m : \A o \in 1..Len(Live(p)) :
              FragmentId(Live(r.p)[k]) \cap FragmentId(Live(p)[o]) = {}
        /\ \A k \in 1..m : \A o \in 1..m :
              k # o => FragmentId(Live(r.p)[k]) \cap FragmentId(Live(r.p)[o]) = {})

\* C13: an update of an Each that holds n fragments and is given m builders
\* leaves it holding m mounted fragments, has called detach(true) exactly once
\* on each of the n, and none of the m is one of the n.
C13_EachFullRebuild ==
    (gen \in FragmentGens /\ ok /\ frag.mounted) =>
        \A i \in 1..Len(frag.renderables) : \A c \in Contexts : \A changed \in ChangedLists :
            Let(frag.renderables[i].part, LAMBDA p :
                (p.kind = "Each" /\ IsSome(ParentNode(World(dom, FALSE), p.anchor))) =>
                    EachRebuilt(p, PartUpdate(World(dom, FALSE), p, c, changed), c))

\* An update has left an Each holding as many rows as the state asks for, with
\* a state in reach that asks for another number.
C13_Witness ==
    /\ gen \in FragmentGens /\ ok /\ frag.mounted /\ op.name = "update" /\ op.was_mounted
    /\ \E i \in 1..Len(frag.renderables) :
          /\ frag.renderables[i].part.kind = "Each"
          /\ frag.renderables[i].part.get_items = "range"
          /\ Len(Live(frag.renderables[i].part)) = MaxCount
          /\ ctx.count = MaxCount

RECURSIVE TopLevelNodesOfAll(_, _)
\* The top-level nodes of the fragments of a list, fragment after fragment.
TopLevelNodesOfAll(fs, i) ==
    IF i > Len(fs) THEN <<>> ELSE TopLevelNodes(fs[i]) \o TopLevelNodesOfAll(fs, i + 1)
\* The fragment was built from the builder: its static nodes hold the contents
\* the builder lists.
BuiltFrom(w, f, b) ==
    /\ Len(f.static_nodes) = Len(b.nodes)
    /\ \A n \in 1..Len(b.nodes) : w.data[f.static_nodes[n].node] = b.nodes[n].content

\* C14: after an update of an Each the top-level nodes of the fragments it
\* holds are children of the anchor's parent, in the order of the builders
\* get_items returned, next to one another and next before the anchor.
C14_EachOrder ==
    (gen \in FragmentGens /\ ok /\ frag.mounted) =>
        \A i \in 1..Len(frag.renderables) : \A c \in Contexts : \A changed \in ChangedLists :
            Let(frag.renderables[i].part, LAMBDA p :
                (p.kind = "Each" /\ IsSome(ParentNode(World(dom, FALSE), p.anchor))) =>
                    Let(PartUpdate(World(dom, FALSE), p, c, changed), LAMBDA r :
                        /\ r.w.ok
                        /\ Len(Live(r.p)) = Len(GetItems(p.get_items, c))
                        /\ \A k \in 1..Len(Live(r.p)) :
                              BuiltFrom(r.w, Live(r.p)[k], GetItems(p.get_items, c)[k])
                        /\ PlacedBefore(r.w, TopLevelNodesOfAll(Live(r.p), 1), p.anchor)))

\* An update has left MaxCount rows, in their order, next before the anchor of
\* an Each that has a sibling after it.
C14_Witness ==
    /\ gen \in FragmentGens /\ ok /\ frag.mounted /\ op.name = "update" /\ op.was_mounted
    /\ ctx.count = MaxCount /\ MaxCount > 1
    /\ \E i \in 1..Len(frag.renderables) :
          /\ frag.renderables[i].part.kind = "Each"
          /\ frag.renderables[i].part.get_items = "range"
          /\ Len(Live(frag.renderables[i].part)) = MaxCount
          /\ PlacedBefore(World(dom, FALSE), TopLevelNodesOfAll(Live(frag.renderables[i].part), 1),
                          frag.renderables[i].part.anchor)
          /\ Let(dom.children[Unwrap(ParentNode(World(dom, FALSE), frag.renderables[i].part.anchor))],
                 LAMBDA ch : ch[Len(ch)] # frag.renderables[i].part.anchor)

\* The calls of the adapter and the updates of the child's fragment in a log.
AdapterCalls(l) == {j \in Events(l, "callback") : l[j].kind = "adapter"}
ChildUpdates(l) == {j \in Events(l, "fragment_update") : l[j].who = Child}

\* C15: an update of the nested component calls the adapter once; the child's
\* fragment is not updated if the adapter has nothing to pass on (None), and
\* is otherwise updated once, with the ids the adapter made of the parent's.
C15_NestedUpdateMapsIds ==
    (gen \in ControllerGens /\ ok /\ ctl.mounted[Parent]) =>
        \A changed \in ChangedLists :
            Let(NestedComponentUpdate(Cycle(ctl), changed).log, LAMBDA l :
                /\ Cardinality(AdapterCalls(l)) = 1
                /\ Mapped(changed) = <<>> => ChildUpdates(l) = {}
                /\ Mapped(changed) # <<>> =>
                      /\ Cardinality(ChildUpdates(l)) = 1
                      /\ \A j \in ChildUpdates(l) : l[j].changed = Mapped(changed))

\* C16: two calls get(a) of a registry return the same Function and the second
\* call creates nothing; get(a) and get(b) with a # b return two Functions.
C16_RegistryCaching ==
    gen \in ControllerGens =>
        \A who \in {Parent, Child} : \A a \in 0..MaxEvent : \A b \in 0..MaxEvent :
            Let(EventRegistryGet(ctl.registry[who], a), LAMBDA first :
            Let(EventRegistryGet(first.registry, a), LAMBDA second :
            Let(EventRegistryGet(second.registry, b), LAMBDA other :
                /\ second.function = first.function
                /\ second.registry = first.registry
                /\ a # b => other.function.serial # first.function.serial)))

\* A Function created after build has been asked for again, in a registry that
\* caches other Functions too.
C16_Witness ==
    /\ gen \in ControllerGens /\ op.name = "get" /\ op.cached /\ op.event_id = MaxEvent
    /\ op.function = ctl.registry[op.who].closures[op.event_id]
    /\ \E b \in DOMAIN ctl.registry[op.who].closures :
          ctl.registry[op.who].closures[b].serial # op.function.serial

\* C17: a Function the registry has cached for an event id stays the one cached
\* for it through every step, and every later get of that id returns it.
RegistryKept ==
    gen \in ControllerGens =>
        \A who \in {Parent, Child} : \A e \in DOMAIN ctl.registry[who].closures :
            /\ e \in DOMAIN ctl'.registry[who].closures
            /\ ctl'.registry[who].closures[e] = ctl.registry[who].closures[e]
            /\ (op'.name = "get" /\ op'.who = who /\ op'.event_id = e) =>
                  op'.function = ctl.registry[who].closures[e]
C17_NeverInvalidated == [][RegistryKept]_vars

\* An event has been handled by a mounted Controller after a Function was
\* created for an id no node asked for at build, and build's Functions are
\* still the first the registry created.
C17_Witness ==
    /\ gen \in ControllerGens /\ ok /\ op.name = "fire" /\ ctl.mounted[Parent]
    /\ MaxEvent \in DOMAIN ctl.registry[Parent].closures
    /\ ctl.registry[Parent].closures[0].serial = 1
    /\ ctl.registry[Parent].created = MaxEvent + 1

RECURSIVE ViewOf(_, _, _), ViewOfAll(_, _, _, _)
\* What the document shows below a node: the content of every node with its
\* depth, in document order.
ViewOf(d, n, depth) == <<[depth |-> depth, data |-> d.data[n]]>> \o ViewOfAll(d, d.children[n], depth + 1, 1)
ViewOfAll(d, ns, depth, i) ==
    IF i > Len(ns) THEN <<>> ELSE ViewOf(d, ns[i], depth) \o ViewOfAll(d, ns, depth, i + 1)
RECURSIVE RowsView(_, _)
\* The rows "counting i" .. "counting n - 1".
RowsView(i, n) ==
    IF i >= n THEN <<>>
    ELSE <<[depth |-> 1, data |-> "p"], [depth |-> 2, data |-> "counting " \o to_string(i)]>>
             \o RowsView(i + 1, n)
\* What the fragment of Simple shows for count = n: the text binding, the
\* buttons, the "showing!" block if n is even, the n rows; the empty strings
\* are the anchors of the parts.
SimpleView(n) ==
    <<[depth |-> 1, data |-> "p"], [depth |-> 2, data |-> "some content: "],
      [depth |-> 2, data |-> to_string(n)], [depth |-> 2, data |-> ""],
      [depth |-> 1, data |-> "button"], [depth |-> 2, data |-> "decrement"],
      [depth |-> 1, data |-> "button"], [depth |-> 2, data |-> "increment"]>>
    \o (IF n % 2 = 0 THEN <<[depth |-> 1, data |-> "p"], [depth |-> 2, data |-> "showing!"]>> ELSE <<>>)
    \o <<[depth |-> 1, data |-> ""]>>
    \o RowsView(0, n)
    \o <<[depth |-> 1, data |-> ""]>>
\* The document with that fragment mounted at a location of the body.
DocumentView(n, l) ==
    <<[depth |-> 0, data |-> "body"]>>
    \o (IF IsSome(l.anchor) THEN SimpleView(n) \o <<[depth |-> 1, data |-> "footer"]>>
        ELSE <<[depth |-> 1, data |-> "footer"]>> \o SimpleView(n))
\* The fragment is the one Simple::new describes.
IsSimple(f) == Len(f.renderables) = 3

\* C18: after Controller::mount of the Controller of Simple with count = n the
\* document shows n in the text binding, the "showing!" block exactly if n is
\* even, and the rows "counting 0" .. "counting n - 1" in that order.
C18_MountInSync ==
    (gen = "dynamic" /\ ok /\ op.name = "controller_mount" /\ IsSimple(frag)) =>
        ViewOf(dom, Body, 0) = DocumentView(ctx.count, loc)

\* Controller::mount has returned with an odd count and with an even one.
C18_Witness ==
    /\ gen = "dynamic" /\ ok /\ op.name = "controller_mount" /\ IsSimple(frag) /\ frag.mounted
    /\ ctx.count = MaxCount /\ MaxCount > 0
    /\ ViewOf(dom, Body, 0) = DocumentView(MaxCount, loc)

\* C19: on a mounted Controller of Simple with count = n >= 1 the event 0 makes
\* handle_event return Some([0]) and the count n - 1, and the update that
\* follows leaves the document showing n - 1: its text, the "showing!" block
\* exactly if n - 1 is even, and n - 1 rows.
C19_DecrementInSync ==
    (gen = "dynamic" /\ IsSimple(frag) /\ op.name = "fire" /\ op.event_id = 0
        /\ op.was_mounted /\ op.count >= 1) =>
        /\ ok
        /\ op.changed = Some(<<0>>)
        /\ ctx.count = op.count - 1
        /\ ViewOf(dom, Body, 0) = DocumentView(op.count - 1, loc)

\* The event 0 has been handled with count = MaxCount on a mounted Controller.
C19_Witness ==
    /\ gen = "dynamic" /\ ok /\ IsSimple(frag) /\ op.name = "fire" /\ op.event_id = 0
    /\ op.was_mounted /\ op.count = MaxCount /\ MaxCount > 1
    /\ ViewOf(dom, Body, 0) = DocumentView(MaxCount - 1, loc)

\* What the fragment of lib.rs 42-62 shows for count = n.
DemoView(n) ==
    <<[depth |-> 1, data |-> "p"], [depth |-> 2, data |-> "some content: "],
      [depth |-> 2, data |-> to_string(n)],
      [depth |-> 1, data |-> "button"], [depth |-> 2, data |-> "click me"]>>
    \o (IF n % 2 = 0 THEN <<[depth |-> 1, data |-> "p"], [depth |-> 2, data |-> "showing!"]>> ELSE <<>>)
    \o <<[depth |-> 1, data |-> ""]>>
    \o RowsView(0, n)
    \o <<[depth |-> 1, data |-> ""]>>
DemoDocumentView(n, l) ==
    <<[depth |-> 0, data |-> "body"]>>
    \o (IF IsSome(l.anchor) THEN DemoView(n) \o <<[depth |-> 1, data |-> "footer"]>>
        ELSE <<[depth |-> 1, data |-> "footer"]>> \o DemoView(n))
IsDemo(f) == Len(f.static_nodes) = 4

\* C20: after detach(true), an update under any state of the component puts
\* none of the fragment's top-level nodes back into the tree; a mount and a
\* full update after it show that state: its count and as many rows, none of
\* them from before the detach.
C20_DetachMutateRemount ==
    (gen = "fragment" /\ ok /\ op.name = "detach" /\ op.top_level) =>
        \A c \in Contexts : \A changed \in ChangedLists :
            Let(FragUpdate(World(dom, FALSE), frag, c, changed), LAMBDA u :
                /\ u.w.ok
                /\ OutOfTree(u.w, TopLevelNodes(frag))
                /\ u.w.children = dom.children
                /\ \A l \in Locations : \A rev \in BOOLEAN :
                      Let(FragMount([u.w EXCEPT !.rev = rev], u.f, l), LAMBDA m :
                      Let(FragFullUpdate(m.w, m.f, c), LAMBDA r :
                          /\ r.w.ok
                          /\ IsDemo(frag) => ViewOf(r.w, Body, 0) = DemoDocumentView(c.count, l))))

\* detach(true) has returned on the fragment of lib.rs while it held MaxCount
\* rows, and the state of the component has another count in reach.
C20_Witness ==
    /\ gen = "fragment" /\ ok /\ op.name = "detach" /\ op.top_level /\ IsDemo(frag)
    /\ op.held = MaxCount /\ MaxCount > 0
    /\ ~frag.mounted
    /\ OutOfTree(World(dom, FALSE), TopLevelNodes(frag))

\* C5: update on a fragment that is not mounted invokes no part, calls no
\* closure and makes no call on the host.
C5_UpdateUnmountedNoop ==
    (ok /\ op.name = "update" /\ ~op.was_mounted) => log = <<>>

\* C6: within one update call on a mounted fragment no part is updated twice.
C6_AtMostOnce ==
    (ok /\ op.name = "update" /\ op.was_mounted)
        => \A j, k \in Events(log, "update") : log[j].part = log[k].part => j = k

\* C7: within one update call on a mounted fragment the top-level parts are visited in registration
\* order, whatever the order of the changed ids.
C7_RegistrationOrder ==
    (ok /\ op.name = "update" /\ op.was_mounted)
        => \A j, k \in Events(log, "update") :
              (j < k /\ Contains(PartOrder, log[j].part) /\ Contains(PartOrder, log[k].part))
                  => IndexOf(PartOrder, log[j].part) <= IndexOf(PartOrder, log[k].part)

\* C9: mount of an unmounted fragment sets mounted and performs no update: no
\* part is updated, no closure is called, no text is written.
C9_MountNoUpdate ==
    (ok /\ op.name = "mount" /\ ~op.was_mounted) => (frag.mounted /\ NoUpdateIn(log))

\* C8: full_update leaves the fragment and the host as update with all the
\* dependency ids of the index does, whatever the order of the keys, and
\* invokes the same parts.
C8_FullUpdateIsUpdateAll ==
    (gen = "fragment" /\ ok) =>
        Let(FragUpdate(World(dom, FALSE), frag, ctx, SortedSeq(DOMAIN frag.dependencies, FALSE)), LAMBDA b :
            \A rev \in BOOLEAN :
                Let(FragFullUpdate(World(dom, rev), frag, ctx), LAMBDA a :
                    /\ a.f = b.f
                    /\ a.w.children = b.w.children
                    /\ a.w.data = b.w.data
                    /\ a.w.ok = b.w.ok
                    /\ Invoked(a.w.log, frag) = Invoked(b.w.log, frag)
                    /\ (frag.mounted => Invoked(a.w.log, frag) = 0..(Len(frag.renderables) - 1))))

C8_Witness ==
    /\ gen = "fragment" /\ ok /\ op.name = "full_update" /\ frag.mounted
    /\ Events(log, "set_data") # {} /\ Events(log, "insert_before") # {}

\* C10: mount(loc) of a never-updated fragment followed by detach(true) leaves
\* the child list of the parent at loc as it was before the mount.
C10_MountDetachSymmetry ==
    (gen = "fragment" /\ ok /\ op.name = "detach" /\ op.top_level
        /\ IsSome(hist.before) /\ ~hist.updated)
        => dom.children[loc.parent] = Unwrap(hist.before)

C10_Witness ==
    /\ gen = "fragment" /\ ok /\ op.name = "detach" /\ op.top_level
    /\ IsSome(hist.before) /\ ~hist.updated
    /\ Len(frag.static_nodes) > 0 /\ Len(frag.renderables) > 0
    /\ loc.anchor # None

\* C21: mount on a fragment that is already mounted aborts, and none of its
\* nodes or anchors is inserted into the host tree by that call.
C21_DoubleMountFailsFast ==
    (op.name = "mount" /\ op.was_mounted) => (~ok /\ Events(log, "insert_before") = {})

\* C22: update on a mounted fragment with a dependency id that its dependency
\* index does not hold aborts.
C22_UnknownIdFailsFast ==
    (op.name = "update" /\ op.was_mounted
        /\ \E k \in Range(op.changed) : k \notin DOMAIN frag.dependencies) => ~ok

\* Some entry of the fragment names a static node the fragment does not hold.
OutOfRange(f) ==
    \/ \E i \in 1..Len(f.static_nodes) :
          IsSome(f.static_nodes[i].location) /\ Unwrap(f.static_nodes[i].location) >= Len(f.static_nodes)
    \/ \E i \in 1..Len(f.renderables) :
          IsSome(f.renderables[i].location) /\ Unwrap(f.renderables[i].location) >= Len(f.static_nodes)

\* C23: a fragment built from a builder with a parent index out of range is
\* never mounted, and a mount of it ends in a panic.
C23_DanglingParentFatal ==
    (gen = "fragment" /\ OutOfRange(frag)) =>
        /\ ~frag.mounted
        /\ op.name = "mount" => ~ok

\* mount has been called on such a fragment, for a static node and for a part.
C23_Witness ==
    /\ gen = "fragment" /\ OutOfRange(frag) /\ op.name = "mount" /\ ~ok
    /\ \E j \in Events(log, "panic") : log[j].why = "location to exist"
    /\ Len(frag.renderables) > 0

\* The expect() messages on the Result of a host call: insert_before in
\* Location::mount.
HostFailures == {"node mounted into parent"}

\* C24: a host call that fails during mount does not end in a panic: mount
\* returns the failure to its caller.
C24_HostFailureReturned ==
    (op.name = "mount") => \A j \in Events(log, "panic") : log[j].why \notin HostFailures

RECURSIVE OwnedList(_), OwnedListOfAll(_, _), OwnedListOfParts(_, _)
\* The host nodes of a fragment and of the fragments its parts hold, one entry
\* per owner.
OwnedList(f) ==
    [i \in 1..Len(f.static_nodes) |-> f.static_nodes[i].node] \o OwnedListOfParts(f, 1)
OwnedListOfParts(f, i) ==
    IF i > Len(f.renderables) THEN <<>>
    ELSE Let(f.renderables[i].part, LAMBDA p :
             <<PartNode(p)>>
             \o (CASE p.kind = "Conditional" -> OwnedList(p.fragment)
                   [] p.kind = "Each" /\ IsSome(p.mounted_fragments) -> OwnedListOfAll(Unwrap(p.mounted_fragments), 1)
                   [] OTHER -> <<>>)
             \o OwnedListOfParts(f, i + 1))
OwnedListOfAll(fs, i) == IF i > Len(fs) THEN <<>> ELSE OwnedList(fs[i]) \o OwnedListOfAll(fs, i + 1)

\* The nodes of the instances the last call detached: the rows an Each dropped
\* in its rebuild, the nested fragment a Conditional took out.
DetachedIn(l) == UNION {l[j].id : j \in Events(l, "fragment_detach")}

C26_DetachUnmountedNoop ==
    /\ (gen = "fragment" /\ ok /\ ~frag.mounted) =>
          \A top_level \in BOOLEAN :
              Let(FragDetach(World(dom, FALSE), frag, top_level), LAMBDA r :
                  /\ r.w.ok
                  /\ Events(r.w.log, "remove_child") = {}
                  /\ r.w.children = dom.children
                  /\ r.f = frag)
    /\ (gen = "legacy" /\ ok /\ ~frag.mounted) =>
          Let(LegacyDetach(World(dom, FALSE), frag), LAMBDA r :
              r.w.ok /\ r.w.log = <<>> /\ r.f = frag)

\* The nodes the last call removed from their parents.
RemovedIn(l) == {l[j].node : j \in Events(l, "remove_child")}

\* C27: detach issues no remove_child for a static node that has a parent
\* index: after the call the node is still a child of the static node its
\* index names.
C27_DetachTopLevelOnly ==
    /\ (gen = "fragment" /\ ok /\ op.name = "detach") =>
          \A i \in 1..Len(frag.static_nodes) :
              IsSome(frag.static_nodes[i].location) =>
                  /\ frag.static_nodes[i].node \notin RemovedIn(log)
                  /\ ParentNode(dom, frag.static_nodes[i].node)
                        = Some(frag.static_nodes[Unwrap(frag.static_nodes[i].location) + 1].node)
    /\ (gen = "legacy" /\ ok /\ op.name = "detach" /\ op.was_mounted) =>
          \A i \in 1..Len(frag.pieces) :
              IsSome(frag.pieces[i].location) =>
                  /\ frag.pieces[i].node \notin RemovedIn(log)
                  /\ ParentNode(dom, frag.pieces[i].node)
                        = Some(frag.pieces[Unwrap(frag.pieces[i].location) + 1].node)

\* C28: detach(top_level) of a Conditional and of an Each removes the anchor
\* of the part exactly if top_level is true.
C28_AnchorRemovedIffTopLevel ==
    (gen = "fragment" /\ ok /\ op.name = "detach") =>
        \A i \in 1..Len(frag.renderables) :
            frag.renderables[i].part.kind \in {"Conditional", "Each"} =>
                (frag.renderables[i].part.anchor \in RemovedIn(log)) = op.top_level

RECURSIVE InSync(_, _, _), InSyncAll(_, _, _, _)
\* Every part of the fragment shows the state c: a text binding holds the text
\* its closure computes, a Conditional has its nested fragment mounted exactly
\* if its condition holds, an Each holds a fragment per item, and the parts of
\* the fragments they hold show c as well.
InSync(w, f, c) ==
    \A i \in 1..Len(f.renderables) :
        Let(f.renderables[i].part, LAMBDA p :
            CASE p.kind = "Updatable" -> w.data[p.text_node] = GetText(p.get_text, c)
              [] p.kind = "Conditional" ->
                    /\ p.fragment_mounted = CheckCondition(p.check_condition, c)
                    /\ p.fragment_mounted => (p.fragment.mounted /\ InSync(w, p.fragment, c))
              [] p.kind = "Each" ->
                    /\ Len(Live(p)) = Len(GetItems(p.get_items, c))
                    /\ InSyncAll(w, Live(p), c, 1))
InSyncAll(w, fs, c, i) ==
    IF i > Len(fs) THEN TRUE ELSE InSync(w, fs[i], c) /\ InSyncAll(w, fs, c, i + 1)

\* C29: after an update of an Each with any list of changed ids every part of
\* every fragment it has built has been updated and shows the state given,
\* whether or not the ids the part depends on are in the list.
C29_EachChildrenFullyUpdated ==
    (gen = "fragment" /\ ok /\ frag.mounted) =>
        \A i \in 1..Len(frag.renderables) : \A c \in Contexts : \A changed \in ChangedLists :
            Let(frag.renderables[i].part, LAMBDA p :
                (p.kind = "Each" /\ IsSome(ParentNode(World(dom, FALSE), p.anchor))) =>
                    Let(PartUpdate(World(dom, FALSE), p, c, changed), LAMBDA r :
                        /\ r.w.ok
                        /\ \A k \in 1..Len(Live(r.p)) :
                              /\ Invoked(r.w.log, Live(r.p)[k]) = 0..(Len(Live(r.p)[k].renderables) - 1)
                              /\ InSync(r.w, Live(r.p)[k], c)))

\* update([0]) has left an Each holding MaxCount rows, each with a text
\* binding on dependency 1 that shows the second field of the state.
C29_Witness ==
    /\ gen = "fragment" /\ ok /\ frag.mounted /\ op.name = "update" /\ op.changed = <<0>>
    /\ \E i \in 1..Len(frag.renderables) :
          /\ frag.renderables[i].part.kind = "Each"
          /\ frag.renderables[i].part.get_items = "bound"
          /\ Len(Live(frag.renderables[i].part)) = MaxCount /\ MaxCount > 0
          /\ \A k \in 1..MaxCount :
                Let(Live(frag.renderables[i].part)[k], LAMBDA row :
                    /\ Len(row.renderables) = 1
                    /\ dom.data[row.renderables[1].part.text_node] = to_string(ctx.other))

\* C30: the mount of the parent Controller mounts the nested component through
\* the child Controller's mount, which runs the child's full update: the
\* fragment of the child is updated before the first update of the parent's
\* fragment, which follows the mount of the parent's fragment.
C30_NestedMountUpdatesChild ==
    (gen \in ControllerGens /\ ok /\ op.name = "mount") =>
        \E j \in Events(log, "fragment_update") :
            /\ log[j].who = Child
            /\ \A i \in Events(log, "fragment_update") : log[i].who = Parent => j < i

\* ---------------------------------------------------------------- C31
\* The closures with_conditional wraps around a check_condition.
ThenClosures == {"then_" \o fn : fn \in {"even", "other"}}

\* The nodes a legacy fragment created for itself in build.
LegacyFragmentId(f) == {LegacyNodes(f)[i].node : i \in 1..Len(LegacyNodes(f))}

\* Per conditional of the fragment, in the order given to the builder: the
\* Fragment instance it holds for its content, if it holds one.
ConditionalContents(g, f) ==
    IF g = "legacy"
    THEN [i \in 1..Len(f.conditionals) |-> Some(LegacyFragmentId(f.conditionals[i].fragment))]
    ELSE Let(SelectSeq(f.renderables, LAMBDA e :
                 \/ e.part.kind = "Conditional"
                 \/ e.part.kind = "Each" /\ e.part.get_items \in ThenClosures), LAMBDA ps :
             [i \in 1..Len(ps) |->
                 IF ps[i].part.kind = "Conditional" THEN Some(FragmentId(ps[i].part.fragment))
                 ELSE IF IsSome(ps[i].part.mounted_fragments)
                         /\ Len(Unwrap(ps[i].part.mounted_fragments)) > 0
                 THEN Some(FragmentId(Unwrap(ps[i].part.mounted_fragments)[1]))
                 ELSE None])

C31_Step ==
    (gen \in FragmentGens \cup {"legacy"} /\ ok') =>
        \A i \in 1..Len(ConditionalContents(gen, frag)) :
            /\ IsSome(ConditionalContents(gen, frag)[i])
            /\ ConditionalContents(gen, frag')[i] = ConditionalContents(gen, frag)[i]

\* C31: a conditional holds its nested Fragment from the build of the enclosing
\* fragment on, mounted or not, and every call (mount, update, detach, with the
\* condition toggling either way) leaves it holding that same instance with the
\* same host nodes: none is ever built anew.
C31_ConditionalBuiltOnce == [][C31_Step]_vars

\* ---------------------------------------------------------------- C32
\* The host nodes of the fragments nested in the conditionals of a fragment.
NestedContentNodes(g, f) ==
    IF g = "legacy"
    THEN UNION {LegacyNodesOf(f.conditionals[i].fragment) : i \in 1..Len(f.conditionals)}
    ELSE UNION {IF f.renderables[i].part.kind = "Conditional"
                THEN NodesOf(f.renderables[i].part.fragment) ELSE {} : i \in 1..Len(f.renderables)}

\* C32: a mount of a fragment mounts, of each of its conditionals, the anchor
\* alone: mount does not evaluate check_condition and inserts no node of a
\* nested fragment, and the conditional is left as not showing its content.
C32_ConditionalMountAnchorOnly ==
    (gen \in {"fragment", "legacy"} /\ ok /\ op.name = "mount" /\ ~op.was_mounted) =>
        /\ \A j \in Events(log, "call") : log[j].fn # "check_condition"
        /\ \A j \in Events(log, "insert_before") : log[j].node \notin NestedContentNodes(gen, frag)
        /\ gen = "fragment" =>
              \A i \in 1..Len(frag.renderables) :
                  frag.renderables[i].part.kind = "Conditional" =>
                      /\ ~frag.renderables[i].part.fragment_mounted
                      /\ \E j \in Events(log, "insert_before") :
                             log[j].node = frag.renderables[i].part.anchor

\* ---------------------------------------------------------------- C33
\* The calls on the host tree the log records.
HostCalls(l) == Events(l, "insert_before") \cup Events(l, "remove_child") \cup Events(l, "set_data")

\* C33: an update of a Conditional that finds its condition as it was forwards
\* the update to the nested fragment when that is mounted, so that every part
\* of it is updated and shows the state given, with no mount and no detach of
\* it; when it is not mounted the update changes nothing.
C33_ConditionalForwardsUpdate ==
    /\ (gen = "fragment" /\ ok /\ frag.mounted) =>
          \A i \in 1..Len(frag.renderables) : \A c \in Contexts : \A changed \in ChangedLists :
              Let(frag.renderables[i].part, LAMBDA p :
                  (/\ p.kind = "Conditional"
                   /\ IsSome(ParentNode(World(dom, FALSE), p.anchor))
                   /\ CheckCondition(p.check_condition, c) = p.fragment_mounted) =>
                      Let(PartUpdate(World(dom, FALSE), p, c, changed), LAMBDA r :
                          IF p.fragment_mounted
                          THEN /\ r.w.ok
                               /\ r.p.fragment_mounted
                               /\ Invoked(r.w.log, p.fragment) = 0..(Len(p.fragment.renderables) - 1)
                               /\ InSync(r.w, r.p.fragment, c)
                               /\ MountCalls(r.w.log, {FragmentId(p.fragment)}) = {}
                          ELSE /\ r.w.ok
                               /\ r.p = p
                               /\ r.w.children = dom.children /\ r.w.data = dom.data
                               /\ HostCalls(r.w.log) = {}))
    /\ (gen = "legacy" /\ ok /\ frag.mounted) =>
          \A i \in 1..Len(frag.conditionals) : \A c \in Contexts :
              Let(frag.conditionals[i], LAMBDA p :
                  (/\ IsSome(ParentNode(World(dom, FALSE), p.anchor))
                   /\ CheckCondition(p.check_condition, c) = p.fragment.mounted) =>
                      Let(LegacyConditionalUpdate(World(dom, FALSE), p, c,
                                                  Unwrap(ParentNode(World(dom, FALSE), p.anchor))), LAMBDA r :
                          IF p.fragment.mounted
                          THEN /\ r.w.ok
                               /\ r.p.fragment.mounted
                               /\ \A k \in 1..Len(p.fragment.updatables) :
                                      r.w.data[p.fragment.updatables[k].text_node]
                                          = GetText(p.fragment.updatables[k].get_text, c)
                          ELSE /\ r.w.ok
                               /\ r.p = p
                               /\ r.w.children = dom.children /\ r.w.data = dom.data
                               /\ HostCalls(r.w.log) = {}))

\* ---------------------------------------------------------------- C34
\* C34: running is set exactly while run drains the queue; a DOM event
\* dispatched during that time has its add_event return early (no panic, the
\* event left in the queue); and once add_event has returned the queue is
\* empty and running is not set.
C34_RunNotReentered ==
    gen \in SchedulerGens =>
        /\ ctl.running = (ctl.pc = "run")
        /\ op.name = "reenter" => ok
        /\ (ok /\ ctl.pc = "idle") => (ctl.events = <<>> /\ ~ctl.running)

\* ---------------------------------------------------------------- C35
\* Some node of the list is in a child list; every node of it is.
SomeInTree(d, nodes) == \E i \in 1..Len(nodes) : IsSome(ParentNode(d, nodes[i]))
AllInTree(d, nodes) == \A i \in 1..Len(nodes) : IsSome(ParentNode(d, nodes[i]))
\* The top-level nodes of a fragment that are text nodes of text bindings, and
\* those that are static nodes or anchors.
TopLevelTextNodes(f) ==
    Let(SelectSeq(TopLevelParts(f), LAMBDA e : e.part.kind = "Updatable"), LAMBDA ps :
        [i \in 1..Len(ps) |-> ps[i].part.text_node])
TopLevelFixedNodes(f) ==
    Let(SelectSeq(TopLevelParts(f), LAMBDA e : e.part.kind # "Updatable"), LAMBDA ps :
        [i \in 1..Len(TopLevel(f)) |-> TopLevel(f)[i].node]
            \o [i \in 1..Len(ps) |-> ps[i].part.anchor])

RECURSIVE MountedIffAttached(_, _), MountedIffAttachedAll(_, _, _)
\* Of f and of every fragment its parts hold: mounted exactly if the
\* top-level nodes are in the tree.
MountedIffAttached(d, f) ==
    /\ Len(TopLevelNodes(f)) > 0 => (f.mounted <=> AllInTree(d, TopLevelNodes(f)))
    /\ f.mounted \/ ~SomeInTree(d, TopLevelNodes(f))
    /\ \A i \in 1..Len(f.renderables) :
          Let(f.renderables[i].part, LAMBDA p :
              CASE p.kind = "Updatable" -> TRUE
                [] p.kind = "Conditional" -> MountedIffAttached(d, p.fragment)
                [] p.kind = "Each" -> MountedIffAttachedAll(d, Live(p), 1))
MountedIffAttachedAll(d, fs, i) ==
    IF i > Len(fs) THEN TRUE ELSE MountedIffAttached(d, fs[i]) /\ MountedIffAttachedAll(d, fs, i + 1)

RECURSIVE MountedIffFixedAttached(_, _), MountedIffFixedAttachedAll(_, _, _)
\* Of f and of every fragment its parts hold: a mounted fragment has all its
\* top-level nodes in the tree, and one that is not mounted has none of its
\* top-level static nodes and anchors in the tree.
MountedIffFixedAttached(d, f) ==
    /\ f.mounted => AllInTree(d, TopLevelNodes(f))
    /\ f.mounted \/ ~SomeInTree(d, TopLevelFixedNodes(f))
    /\ \A i \in 1..Len(f.renderables) :
          Let(f.renderables[i].part, LAMBDA p :
              CASE p.kind = "Updatable" -> TRUE
                [] p.kind = "Conditional" -> MountedIffFixedAttached(d, p.fragment)
                [] p.kind = "Each" -> MountedIffFixedAttachedAll(d, Live(p), 1))
MountedIffFixedAttachedAll(d, fs, i) ==
    IF i > Len(fs) THEN TRUE
    ELSE MountedIffFixedAttached(d, fs[i]) /\ MountedIffFixedAttachedAll(d, fs, i + 1)

\* C35 as stated: every fragment is mounted exactly if its top-level static
\* nodes, text nodes and anchors are in the tree, and after detach(top_level),
\* for either value, it is not mounted and none of them is in the tree.
C35_MountedIffAttached ==
    (gen = "fragment" /\ ok) =>
        /\ MountedIffAttached(dom, frag)
        /\ op.name = "detach" => (~frag.mounted /\ ~SomeInTree(dom, TopLevelNodes(frag)))

\* C35 as amended: a mounted fragment has its top-level static nodes, text
\* nodes and anchors in the tree; a fragment that is not mounted has none of
\* its top-level static nodes and anchors in the tree; after detach(top_level)
\* the fragment is not mounted, none of its top-level static nodes and anchors
\* is in the tree and, when top_level was true, none of its top-level text
\* nodes.
C35_MountedIffAttachedAmended ==
    (gen = "fragment" /\ ok) =>
        /\ MountedIffFixedAttached(dom, frag)
        /\ op.name = "detach" =>
              /\ ~frag.mounted
              /\ ~SomeInTree(dom, TopLevelFixedNodes(frag))
              /\ op.top_level => ~SomeInTree(dom, TopLevelTextNodes(frag))

\* detach(false) has run on a mounted fragment with text bindings at its top
\* level: the fragment is not mounted and their text nodes are still in the
\* tree.
C35_Witness ==
    /\ gen = "fragment" /\ ok /\ op.name = "detach" /\ ~op.top_level
    /\ ~frag.mounted
    /\ Len(TopLevelTextNodes(frag)) > 0
    /\ AllInTree(dom, TopLevelTextNodes(frag))

\* ---------------------------------------------------------------- C36
\* The entries of the closures of one kind in the log.
CallbacksIn(l, kind) == {j \in Events(l, "callback") : l[j].kind = kind}
\* The updates of the fragment of one Controller in the log.
FragmentUpdatesIn(l, who) == {j \in Events(l, "fragment_update") : l[j].who = who}

\* C36: the dispatch of an event of the child returns, with the bound update
\* run exactly once when the child reported a change and not at all when it
\* did not: the parent is notified once, after the bound update, and its
\* update reaches the child through the adapter and the update of the child's
\* fragment, after which nothing more runs.
C36_BoundUpdateOnce ==
    (gen = "controller" /\ op.name = "fire" /\ op.who = Child) =>
        /\ ok
        /\ IF \E j \in Events(log, "handled") : IsSome(log[j].changed)
           THEN /\ Cardinality(Events(log, "bound_update")) = 1
                /\ Cardinality(CallbacksIn(log, "bound_update")) = 1
                /\ Cardinality(FragmentUpdatesIn(log, Parent)) = 1
                /\ \A b \in CallbacksIn(log, "bound_update") :
                      /\ \A j \in FragmentUpdatesIn(log, Parent) : b < j
                      /\ ctl.mounted[Parent] =>
                            \E a \in CallbacksIn(log, "adapter") :
                                /\ b < a
                                /\ \E j \in FragmentUpdatesIn(log, Child) : a < j /\ j = Len(log) - 1
           ELSE Events(log, "bound_update") = {} /\ CallbacksIn(log, "bound_update") = {}

\* The child's event 0 has been dispatched with the parent mounted: the bound
\* update ran once and the child's fragment was updated before and after it.
C36_Witness ==
    /\ gen = "controller" /\ ok /\ op.name = "fire" /\ op.who = Child /\ op.event_id = 0
    /\ ctl.mounted[Parent]
    /\ Cardinality(CallbacksIn(log, "bound_update")) = 1
    /\ Cardinality(FragmentUpdatesIn(log, Child)) = 2
    /\ ctl.count = ctl.bold

\* ---------------------------------------------------------------- C37
\* What a RefCell panics with when a borrow meets a conflicting one.
BorrowFailures == {"already borrowed", "already mutably borrowed"}

\* C37: in the dispatch of an event no borrow of a Controller, Fragment or
\* component cell meets a conflicting borrow that is still live, and the
\* bound update is entered with no component cell mutably borrowed: the
\* update of the child Controller that the parent makes in the same call
\* chain finds the child's cells free.
C37_NoConflictingBorrow ==
    (gen = "controller" /\ op.name = "fire") =>
        /\ \A j \in Events(log, "panic") : log[j].why \notin BorrowFailures
        /\ \A b \in CallbacksIn(log, "bound_update") : log[b].held = {}

\* An event of the child has been dispatched with the parent mounted: after
\* the bound update was entered the parent's fragment was updated, and after
\* that the child's, with no panic.
C37_Witness ==
    /\ gen = "controller" /\ ok /\ op.name = "fire" /\ op.who = Child
    /\ ctl.mounted[Parent] /\ ctl.mounted[Child]
    /\ \E b \in CallbacksIn(log, "bound_update") :
          \E i \in FragmentUpdatesIn(log, Parent) :
              \E j \in FragmentUpdatesIn(log, Child) : b < i /\ i < j

\* The nodes a fragment created for itself, in the order mount names them: the
\* static nodes as built, then the text node or anchor of every part as
\* registered. (Nothing in src/ pushes to Fragment::controllers, so the third
\* pass of mount has nothing to mount.)
OwnNodes(f) ==
    [i \in 1..Len(f.static_nodes) |-> f.static_nodes[i].node]
        \o [i \in 1..Len(f.renderables) |-> PartNode(f.renderables[i].part)]
\* The own nodes of f among the children of the host node p, as the host orders
\* them and as mount orders them.
OwnChildren(d, f, p) == SelectSeq(d.children[p], LAMBDA n : n \in FragmentId(f))
OwnMounted(d, f, p) == SelectSeq(OwnNodes(f), LAMBDA n : Contains(d.children[p], n))

RECURSIVE MountOrder(_, _), MountOrderAll(_, _, _)
\* Every mounted fragment, the fragments its parts hold included, has all its
\* own nodes in the host tree, and under every host parent they stand in the
\* order of mount.
MountOrder(d, f) ==
    /\ f.mounted =>
          /\ \A n \in FragmentId(f) : IsSome(ParentNode(d, n))
          /\ \A p \in DOMAIN d.children : OwnChildren(d, f, p) = OwnMounted(d, f, p)
    /\ \A i \in 1..Len(f.renderables) :
          Let(f.renderables[i].part, LAMBDA part :
              CASE part.kind = "Conditional" -> MountOrder(d, part.fragment)
                [] part.kind = "Each" -> MountOrderAll(d, Live(part), 1)
                [] OTHER -> TRUE)
MountOrderAll(d, fs, i) ==
    IF i > Len(fs) THEN TRUE ELSE MountOrder(d, fs[i]) /\ MountOrderAll(d, fs, i + 1)

\* The content a part of the root mounted during the call whose log is l stands
\* next before the anchor of that part.
ContentBeforeAnchor(d, f, l) ==
    \A i \in 1..Len(f.renderables) :
        Let(f.renderables[i].part, LAMBDA part :
            CASE part.kind = "Conditional" ->
                    (\E m \in Events(l, "fragment_mount") : l[m].id = FragmentId(part.fragment)
                                                            /\ FragmentId(part.fragment) # {})
                        => PlacedBefore(d, TopLevelNodes(part.fragment), part.anchor)
              [] part.kind = "Each" ->
                    (Live(part) # <<>> /\ Events(l, "fragment_mount") # {})
                        => PlacedBefore(d, TopLevelNodesOfAll(Live(part), 1), part.anchor)
              [] OTHER -> TRUE)

C38_Step ==
    (gen' = "fragment" /\ ok') =>
        /\ MountOrder(dom', frag')
        /\ op'.name \in {"update", "full_update"} =>
              /\ FragmentId(frag') = FragmentId(frag)
              /\ \A p \in DOMAIN dom.children \cap DOMAIN dom'.children :
                    OwnChildren(dom', frag', p) = OwnChildren(dom, frag, p)
              /\ ContentBeforeAnchor(dom', frag', log')

\* C38: after Fragment::mount the own nodes of the fragment stand, under every
\* host parent, in the order static nodes (as built) then parts' text nodes and
\* anchors (as registered); an update or full update moves none of them, and
\* the content a Conditional or an Each mounts in it stands next before the
\* anchor of that part.
C38_MountOrder == [][C38_Step]_vars

\* A mounted Demo fragment after an update that has put the content of its
\* Conditional and a row of its Each between its own top-level nodes.
C38_Witness ==
    /\ gen = "fragment" /\ ok /\ frag.mounted /\ op.name = "update" /\ op.was_mounted
    /\ Len(TopLevel(frag)) > 1
    /\ \E i, j \in 1..Len(frag.renderables) :
          /\ i < j
          /\ frag.renderables[i].part.kind = "Conditional"
          /\ frag.renderables[i].part.fragment_mounted
          /\ frag.renderables[j].part.kind = "Each"
          /\ Live(frag.renderables[j].part) # <<>>
          /\ \E m \in Events(log, "fragment_mount") :
                log[m].id = FragmentId(frag.renderables[i].part.fragment)
          /\ Len(OwnChildren(dom, frag, Body)) = 4
          /\ Len(dom.children[Body]) > 6

\* How often the log records a detach of the fragment, and a mount of it.
DetachesOf(l, f) == Cardinality({j \in Events(l, "fragment_detach") : l[j].id = FragmentId(f)})
MountsOf(l, f) == Cardinality({j \in Events(l, "fragment_mount") : l[j].id = FragmentId(f)})
\* The fragment is one of the list.
HeldIn(fs, f) == \E k \in 1..Len(fs) : FragmentId(fs[k]) = FragmentId(f)
\* The parts of a fragment that are an Each (an Iterator in builder.rs).
EachParts(f) == {i \in 1..Len(f.renderables) : f.renderables[i].part.kind = "Each"}

C39_Step ==
    gen' \in FragmentGens =>
        \A i \in EachParts(frag) :
            Let(Live(frag.renderables[i].part), LAMBDA before :
            Let(Live(frag'.renderables[i].part), LAMBDA after :
                /\ \A k \in 1..Len(before) :
                      /\ DetachesOf(log', before[k]) <= 1
                      /\ ok' => (DetachesOf(log', before[k]) = 1 <=> ~HeldIn(after, before[k]))
                /\ \A k \in 1..Len(after) :
                      /\ DetachesOf(log', after[k]) = 0
                      /\ ~HeldIn(before, after[k]) => MountsOf(log', after[k]) = 1
                      /\ ok' => /\ after[k].mounted
                                /\ \A n \in 1..Len(after[k].static_nodes) :
                                      IsSome(ParentNode(dom', after[k].static_nodes[n].node))
                /\ (ok' /\ op'.name = "detach") => after = <<>>))

\* C39: every fragment an Each (or an Iterator) builds is detached exactly
\* once: a call detaches a fragment of the list at most once, and it does so
\* exactly when the fragment leaves the list; a fragment that is in the list
\* after the call was not detached by it, is mounted and has its static nodes
\* in the host tree, so that its one detach finds their parents; after a
\* detach of the Each the list is empty, so no later call detaches again.
C39_EachDetachesOnce == [][C39_Step]_vars

\* A detach has detached, once each, the MaxCount rows an Each held and has
\* left its list empty.
C39_Witness ==
    /\ gen \in FragmentGens /\ ok /\ op.name = "detach" /\ op.held = MaxCount /\ MaxCount > 1
    /\ \A i \in EachParts(frag) : Live(frag.renderables[i].part) = <<>>
    /\ Cardinality({j \in Events(log, "fragment_detach") : j > 1}) = MaxCount

\* The values the iterator has yielded with the key k, in the order it
\* yielded them.
YieldedOf(yielded, k) ==
    Let(SelectSeq(yielded, LAMBDA pair : pair[1] = k), LAMBDA ps : [i \in 1..Len(ps) |-> ps[i][2]])

\* C40: when next has returned None, the pairs iter() has yielded are, key by
\* key, the values insert stored with the key, each once and in the order of
\* their insertion, and no pair has a key that was never inserted.
C40_IterYieldsAll ==
    (gen = "hash_map_list" /\ IsSome(ctl.iter) /\ ctl.ended) =>
        /\ \A k \in DOMAIN ctl.collection : YieldedOf(ctl.yielded, k) = ctl.collection[k]
        /\ \A i \in 1..Len(ctl.yielded) : ctl.yielded[i][1] \in DOMAIN ctl.collection

====
